---- MODULE Spec2Model ----
(***************************************************************************)
(* A model of the policy rule engine: the rule-language parser             *)
(* (policy/_parser.py), the check nodes and their evaluation               *)
(* (policy/checks.py), the mtime-keyed file cache (policy/_cache.py) and   *)
(* the enforcer with its double-checked, lock-protected loader             *)
(* (policy/enforcer.py).                                                   *)
(*                                                                         *)
(* Python strings are sequences of one-character strings, so that the      *)
(* tokenizer, str.split, str.lstrip and the __str__ renderings are         *)
(* computed character by character.                                        *)
(***************************************************************************)
EXTENDS Integers, Sequences, FiniteSets, TLC

(***************************************************************************)
(* Strings.                                                                *)
(***************************************************************************)
\* str.lower() on one character, for the letters the rule language uses.
LowerChar(c) ==
    CASE c = "A" -> "a"
      [] c = "N" -> "n"
      [] c = "D" -> "d"
      [] c = "O" -> "o"
      [] c = "R" -> "r"
      [] c = "T" -> "t"
      [] OTHER -> c

Lower(s) == [i \in 1..Len(s) |-> LowerChar(s[i])]

\* The number of leading characters of s equal to c: len(s) - len(s.lstrip(c)).
RECURSIVE LeadCount(_, _)
LeadCount(s, c) ==
    IF s = <<>> \/ Head(s) # c THEN 0 ELSE 1 + LeadCount(Tail(s), c)

\* The number of trailing characters of s equal to c: len(s) - len(s.rstrip(c)).
RECURSIVE TrailCount(_, _)
TrailCount(s, c) ==
    IF s = <<>> \/ s[Len(s)] # c THEN 0
    ELSE 1 + TrailCount(SubSeq(s, 1, Len(s) - 1), c)

\* The index of the first occurrence of c in s, 0 when there is none.
RECURSIVE IndexOf(_, _, _)
IndexOf(s, c, i) ==
    IF i > Len(s) THEN 0 ELSE IF s[i] = c THEN i ELSE IndexOf(s, c, i + 1)

\* sep.join(parts)
RECURSIVE JoinStr(_, _)
JoinStr(parts, sep) ==
    IF parts = <<>> THEN <<>>
    ELSE IF Len(parts) = 1 THEN parts[1]
    ELSE parts[1] \o sep \o JoinStr(Tail(parts), sep)

\* re.compile(r'\s+').split(rule): the pieces between runs of whitespace
\* (the pieces at the two ends may be empty, as in Python).
RECURSIVE SplitWS(_, _, _)
SplitWS(s, i, cur) ==
    IF i > Len(s) THEN <<cur>>
    ELSE IF s[i] = " "
         THEN IF i > 1 /\ s[i - 1] = " "
              THEN SplitWS(s, i + 1, cur)
              ELSE <<cur>> \o SplitWS(s, i + 1, <<>>)
         ELSE SplitWS(s, i + 1, Append(cur, s[i]))

_TOKENIZE_RE_split(rule) == SplitWS(rule, 1, <<>>)

(***************************************************************************)
(* Check nodes (policy/checks.py).  None is Python's None, StrValue a      *)
(* plain str object: the parser can leave either where a check belongs.    *)
(***************************************************************************)
None == [type |-> "None"]
StrValue(s) == [type |-> "str", s |-> s]
FalseCheck == [type |-> "FalseCheck"]
TrueCheck == [type |-> "TrueCheck"]
Check(cls, kind, match) == [type |-> cls, kind |-> kind, match |-> match]
NotCheck(rule) == [type |-> "NotCheck", rule |-> rule]
AndCheck(rules) == [type |-> "AndCheck", rules |-> rules]
OrCheck(rules) == [type |-> "OrCheck", rules |-> rules]

BaseCheckTypes ==
    {"FalseCheck", "TrueCheck", "RuleCheck", "RoleCheck", "GenericChecker",
     "NotCheck", "AndCheck", "OrCheck"}

\* isinstance(v, checks.BaseCheck)
IsBaseCheck(v) == v.type \in BaseCheckTypes

\* str(v): the __str__ of each node; str(None) is 'None', str of a str is itself.
RECURSIVE StrOf(_)
StrOf(v) ==
    CASE v.type = "FalseCheck" -> <<"!">>
      [] v.type = "TrueCheck" -> <<"@">>
      [] v.type \in {"RuleCheck", "RoleCheck", "GenericChecker"} ->
            v.kind \o <<":">> \o v.match
      [] v.type = "NotCheck" -> <<"n", "o", "t", " ">> \o StrOf(v.rule)
      [] v.type = "AndCheck" ->
            <<"(">> \o JoinStr([i \in 1..Len(v.rules) |-> StrOf(v.rules[i])],
                               <<" ", "a", "n", "d", " ">>) \o <<")">>
      [] v.type = "OrCheck" ->
            <<"(">> \o JoinStr([i \in 1..Len(v.rules) |-> StrOf(v.rules[i])],
                               <<" ", "o", "r", " ">>) \o <<")">>
      [] v.type = "str" -> v.s
      [] OTHER -> <<"N", "o", "n", "e">>

\* AndCheck.add_check / OrCheck.add_check: appends to self.rules in place and
\* has no return statement, so the call's value is None.
\* obj is the node after the call, ret the value the call returns.
add_check(self, rule) ==
    [obj |-> [self EXCEPT !.rules = Append(@, rule)], ret |-> None]

\* OrCheck.pop_check: removes the last child in place, returns (self, child).
pop_check(self) ==
    [obj |-> [self EXCEPT !.rules = SubSeq(@, 1, Len(@) - 1)],
     checker |-> self.rules[Len(self.rules)]]

\* checks.registered_checks after the module's three @register calls; the
\* key None (the wildcard) is NoneKey here, which no kind of a rule (a
\* sequence of single characters) equals.
NoneKey == <<"None">>

registered_checks ==
    [k \in {<<"r", "u", "l", "e">>, <<"r", "o", "l", "e">>, NoneKey} |->
        IF k = <<"r", "u", "l", "e">> THEN "RuleCheck"
        ELSE IF k = <<"r", "o", "l", "e">> THEN "RoleCheck"
        ELSE "GenericChecker"]

(***************************************************************************)
(* The parser (policy/_parser.py).  A call's outcome is a record whose     *)
(* exc field names the exception that left the call, "" when none did.     *)
(***************************************************************************)
\* Parser._parse_check
_parse_check(rule, raise_error) ==
    IF rule = StrOf(FalseCheck) THEN [exc |-> "", val |-> FalseCheck]
    ELSE IF rule = StrOf(TrueCheck) THEN [exc |-> "", val |-> TrueCheck]
    ELSE LET colon == IndexOf(rule, ":", 1) IN
         IF colon = 0
         THEN \* kind, match = rule.split(':', 1) fails to unpack
              IF raise_error
              THEN [exc |-> "InvalidRuleException", val |-> None]
              ELSE [exc |-> "", val |-> FalseCheck]
         ELSE LET kind == SubSeq(rule, 1, colon - 1)
                  match == SubSeq(rule, colon + 1, Len(rule))
              IN  IF kind \in DOMAIN registered_checks
                  THEN [exc |-> "",
                        val |-> Check(registered_checks[kind], kind, match)]
                  ELSE IF NoneKey \in DOMAIN registered_checks
                  THEN [exc |-> "",
                        val |-> Check(registered_checks[NoneKey], kind, match)]
                  ELSE IF raise_error
                  THEN [exc |-> "InvalidRuleException", val |-> None]
                  ELSE [exc |-> "", val |-> FalseCheck]

KeywordToken(lowered) ==
    CASE lowered = <<"a", "n", "d">> -> "and"
      [] lowered = <<"o", "r">> -> "or"
      [] lowered = <<"n", "o", "t">> -> "not"
      [] OTHER -> ""

\* The tokens one whitespace-separated piece yields in Parser._parse_tokenize.
\* A 'check' lexeme carries the text that _parse_check is called on when the
\* generator reaches it (the generator is lazy: earlier tokens are shifted
\* before a later piece is parsed).
PieceLexemes(piece) ==
    LET lead == LeadCount(piece, "(")
        token == SubSeq(piece, lead + 1, Len(piece))
        trail == TrailCount(token, ")")
        clean == SubSeq(token, 1, Len(token) - trail)
        lowered == Lower(clean)
        opens == [i \in 1..lead |-> [tok |-> "(", text |-> <<"(">>]]
        closes == [i \in 1..trail |-> [tok |-> ")", text |-> <<")">>]]
        body ==
            IF KeywordToken(lowered) # ""
            THEN <<[tok |-> KeywordToken(lowered), text |-> clean]>>
            ELSE IF clean # <<>>
            THEN IF Len(token) >= 2
                    /\ <<token[1], token[Len(token)]>> \in
                          {<<"\"", "\"">>, <<"'", "'">>}
                 THEN <<[tok |-> "string",
                         text |-> SubSeq(token, 2, Len(token) - 1)]>>
                 ELSE <<[tok |-> "check", text |-> clean]>>
            ELSE <<>>
    IN  IF piece = <<>> THEN <<>>
        ELSE IF token = <<>> THEN opens
        ELSE opens \o body \o closes

RECURSIVE ConcatLexemes(_)
ConcatLexemes(pieces) ==
    IF pieces = <<>> THEN <<>>
    ELSE PieceLexemes(Head(pieces)) \o ConcatLexemes(Tail(pieces))

\* Parser._parse_tokenize
_parse_tokenize(rule) == ConcatLexemes(_TOKENIZE_RE_split(rule))

\* Parser.reducers, in the order ParserMeta collects them: the methods in
\* the order the class defines them, each method's patterns in the order its
\* decorators ran (the lowest @reducer first).
reducers ==
    << [reduction |-> <<"(", "or_expr", ")">>, methname |-> "_wrap_check"],
       [reduction |-> <<"(", "and_expr", ")">>, methname |-> "_wrap_check"],
       [reduction |-> <<"(", "check", ")">>, methname |-> "_wrap_check"],
       [reduction |-> <<"check", "and", "check">>, methname |-> "_make_and_expr"],
       [reduction |-> <<"or_expr", "and", "check">>, methname |-> "_mix_or_and_expr"],
       [reduction |-> <<"and_expr", "and", "check">>, methname |-> "_extend_and_expr"],
       [reduction |-> <<"and_expr", "or", "check">>, methname |-> "_make_or_expr"],
       [reduction |-> <<"check", "or", "check">>, methname |-> "_make_or_expr"],
       [reduction |-> <<"or_expr", "or", "check">>, methname |-> "_extend_or_expr"],
       [reduction |-> <<"not", "check">>, methname |-> "_make_not_expr"] >>

_wrap_check(_p1, check, _p2) ==
    [exc |-> "", tok |-> "check", val |-> check]

_make_and_expr(check1, _and, check2) ==
    [exc |-> "", tok |-> "and_expr", val |-> AndCheck(<<check1, check2>>)]

\* _mix_or_and_expr returning the Or node as pop_check left it, the new And
\* node not added to it again.
_mix_or_and_expr_NoReadd(or_expr, _and, check) ==
    IF or_expr.type # "OrCheck"
    THEN [exc |-> "AttributeError", tok |-> "or_expr", val |-> None]
    ELSE [exc |-> "", tok |-> "or_expr", val |-> pop_check(or_expr).obj]

\* Parser._mix_or_and_expr: on None (what an earlier add_check returned)
\* or_expr.pop_check() raises AttributeError.
_mix_or_and_expr(or_expr, _and, check) ==
    IF or_expr.type # "OrCheck"
    THEN [exc |-> "AttributeError", tok |-> "or_expr", val |-> None]
    ELSE LET popped == pop_check(or_expr)
             check1 == popped.checker
             and_expr == IF check1.type = "AndCheck"
                         THEN add_check(check1, check).obj
                         ELSE AndCheck(<<check1, check>>)
         IN  [exc |-> "", tok |-> "or_expr",
              val |-> add_check(popped.obj, and_expr).ret]

_extend_and_expr(and_expr, _and, check) ==
    IF and_expr.type # "AndCheck"
    THEN [exc |-> "AttributeError", tok |-> "and_expr", val |-> None]
    ELSE [exc |-> "", tok |-> "and_expr", val |-> add_check(and_expr, check).ret]

_make_or_expr(check1, _or, check2) ==
    [exc |-> "", tok |-> "or_expr", val |-> OrCheck(<<check1, check2>>)]

_extend_or_expr(or_expr, _or, check) ==
    IF or_expr.type # "OrCheck"
    THEN [exc |-> "AttributeError", tok |-> "or_expr", val |-> None]
    ELSE [exc |-> "", tok |-> "or_expr", val |-> add_check(or_expr, check).ret]

_make_not_expr(_not, check) ==
    [exc |-> "", tok |-> "check", val |-> NotCheck(check)]

\* getattr(self, methname)(*self.values[-token_num:])
CallReducer(methname, v) ==
    CASE methname = "_wrap_check" -> _wrap_check(v[1], v[2], v[3])
      [] methname = "_make_and_expr" -> _make_and_expr(v[1], v[2], v[3])
      [] methname = "_mix_or_and_expr" -> _mix_or_and_expr(v[1], v[2], v[3])
      [] methname = "_extend_and_expr" -> _extend_and_expr(v[1], v[2], v[3])
      [] methname = "_make_or_expr" -> _make_or_expr(v[1], v[2], v[3])
      [] methname = "_extend_or_expr" -> _extend_or_expr(v[1], v[2], v[3])
      [] OTHER -> _make_not_expr(v[1], v[2])

\* The reducers whose pattern is the tail of the token stack.
Matching(tokens) ==
    {i \in 1..Len(reducers) :
        LET k == Len(reducers[i].reduction)
        IN  Len(tokens) >= k
            /\ SubSeq(tokens, Len(tokens) - k + 1, Len(tokens)) = reducers[i].reduction}

RECURSIVE _reduce(_)

\* self.tokens[-token_num:] = [r[0] ...]; self.values[-token_num:] = [r[1] ...];
\* return self._reduce()  (r is what the reduction method returned)
Reduced(p, token_num, r) ==
    IF r.exc # "" THEN [p EXCEPT !.exc = r.exc]
    ELSE _reduce([p EXCEPT
            !.tokens = Append(SubSeq(@, 1, Len(@) - token_num), r.tok),
            !.values = Append(SubSeq(@, 1, Len(@) - token_num), r.val)])

\* results = meth(*self.values[-token_num:])
RunReducer(p, reducer) ==
    Reduced(p, Len(reducer.reduction),
            CallReducer(reducer.methname,
                        SubSeq(p.values, Len(p.values) - Len(reducer.reduction) + 1,
                               Len(p.values))))

\* Parser._reduce: the first reducer whose pattern is the tail of the token
\* stack runs, its result replaces the tail, and _reduce runs again.
_reduce(p) ==
    IF Matching(p.tokens) = {} THEN p
    ELSE RunReducer(p, reducers[CHOOSE j \in Matching(p.tokens) :
                                    \A k \in Matching(p.tokens) : j <= k])

\* Parser._shift
_shift(p, token, value) ==
    _reduce([p EXCEPT !.tokens = Append(@, token), !.values = Append(@, value)])

\* The value the tokenizer yields with a lexeme: _parse_check's for a check.
LexemeValue(lx, raise_error) ==
    IF lx.tok = "check" THEN _parse_check(lx.text, raise_error)
    ELSE [exc |-> "", val |-> StrValue(lx.text)]

ShiftLexeme(p, tok, v) ==
    IF v.exc # "" THEN [p EXCEPT !.exc = v.exc] ELSE _shift(p, tok, v.val)

\* The loop of Parser.parse over the token generator.
RECURSIVE ShiftAll(_, _, _)
ShiftAll(p, lexemes, raise_error) ==
    IF lexemes = <<>> \/ p.exc # "" THEN p
    ELSE ShiftAll(ShiftLexeme(p, Head(lexemes).tok,
                              LexemeValue(Head(lexemes), raise_error)),
                  Tail(lexemes), raise_error)

\* Parser.result: ValueError unless exactly one value is left.
result(p) ==
    IF Len(p.values) # 1 THEN [exc |-> "ValueError", val |-> None]
    ELSE [exc |-> "", val |-> p.values[1]]

\* The end of Parser.parse: an exception of the loop leaves parse; the
\* ValueError of self.result is caught and FalseCheck returned.
Parsed(p, res) ==
    IF p.exc # "" THEN [exc |-> p.exc, val |-> None]
    ELSE IF res.exc = "ValueError" THEN [exc |-> "", val |-> FalseCheck]
    ELSE [exc |-> "", val |-> res.val]

ParseTokens(p) == Parsed(p, result(p))

\* Parser.parse (and parse_rule, which builds a Parser and calls it).
\* Parser.parse with the False node for the empty rule.
parse_EmptyDenies(rule, raise_error) ==
    IF rule = <<>> THEN [exc |-> "", val |-> FalseCheck]
    ELSE ParseTokens(ShiftAll([tokens |-> <<>>, values |-> <<>>, exc |-> ""],
                              _parse_tokenize(rule), raise_error))

parse(rule, raise_error) ==
    IF rule = <<>> THEN [exc |-> "", val |-> TrueCheck]
    ELSE ParseTokens(ShiftAll([tokens |-> <<>>, values |-> <<>>, exc |-> ""],
                              _parse_tokenize(rule), raise_error))

parse_rule(rule, raise_error) == parse(rule, raise_error)

(***************************************************************************)
(* Python values a target or a credential is made of: str (StrValue),      *)
(* None, dict and list.                                                    *)
(***************************************************************************)
PyDict(d) == [type |-> "dict", d |-> d]
PyList(l) == [type |-> "list", l |-> l]

\* An order in which iterating a dict yields its keys.
RECURSIVE KeyOrder(_)
KeyOrder(S) ==
    IF S = {} THEN <<>>
    ELSE LET k == CHOOSE x \in S : TRUE IN <<k>> \o KeyOrder(S \ {k})

\* repr(v) and str(v) of a value.
RECURSIVE PyRepr(_)
PyRepr(v) ==
    CASE v.type = "str" -> <<"'">> \o v.s \o <<"'">>
      [] v.type = "list" ->
            <<"[">> \o JoinStr([i \in 1..Len(v.l) |-> PyRepr(v.l[i])], <<",", " ">>)
                    \o <<"]">>
      [] v.type = "dict" ->
            LET ks == KeyOrder(DOMAIN v.d) IN
            <<"{">> \o JoinStr([i \in 1..Len(ks) |->
                                   PyRepr(StrValue(ks[i])) \o <<":", " ">>
                                       \o PyRepr(v.d[ks[i]])], <<",", " ">>)
                    \o <<"}">>
      [] OTHER -> <<"N", "o", "n", "e">>

PyStr(v) == IF v.type = "str" THEN v.s ELSE PyRepr(v)

\* _utils.dict_from_object: a dict is returned as it is (targets are dicts).
dict_from_object(obj) == obj

\* _utils.xgetattr(obj, name, default, getitem)
xgetattr(obj, name, default, getitem) ==
    IF obj.type = "dict"
    THEN IF getitem
         THEN IF name \in DOMAIN obj.d
              THEN [exc |-> "", val |-> obj.d[name]]
              ELSE [exc |-> "KeyError", val |-> None]
         ELSE [exc |-> "", val |-> IF name \in DOMAIN obj.d THEN obj.d[name] ELSE default]
    ELSE \* getattr on a str, a list or None: no such attribute
         IF default.type = "_sentinel"
         THEN [exc |-> "AttributeError", val |-> None]
         ELSE [exc |-> "", val |-> default]

_sentinel == [type |-> "_sentinel"]

\* match % mapping, for the formats %(key)s and %%; the key is looked up
\* before the conversion character is read.
RECURSIVE Interpolate(_, _, _)
Interpolate(s, i, mapping) ==
    IF i > Len(s) THEN [exc |-> "", val |-> <<>>]
    ELSE IF s[i] # "%"
    THEN LET r == Interpolate(s, i + 1, mapping)
         IN  [r EXCEPT !.val = <<s[i]>> \o @]
    ELSE IF i = Len(s) THEN [exc |-> "ValueError", val |-> <<>>]
    ELSE IF s[i + 1] = "%"
    THEN LET r == Interpolate(s, i + 2, mapping)
         IN  [r EXCEPT !.val = <<"%">> \o @]
    ELSE IF s[i + 1] = "("
    THEN LET close == IndexOf(s, ")", i + 2)
             key == SubSeq(s, i + 2, close - 1)
         IN  IF close = 0 THEN [exc |-> "ValueError", val |-> <<>>]
             ELSE IF key \notin DOMAIN mapping.d THEN [exc |-> "KeyError", val |-> <<>>]
             ELSE IF close = Len(s) \/ s[close + 1] # "s"
             THEN [exc |-> "ValueError", val |-> <<>>]
             ELSE LET r == Interpolate(s, close + 2, mapping)
                  IN  [r EXCEPT !.val = PyStr(mapping.d[key]) \o @]
    ELSE [exc |-> "TypeError", val |-> <<>>]

Digits == {"0", "1", "2", "3", "4", "5", "6", "7", "8", "9"}

\* ast.literal_eval(kind), as the string form of the value it yields:
\* an integer, True/False/None or a quoted string evaluates; a name or a
\* dotted path is a ValueError (caught by the caller); anything else does
\* not compile (SyntaxError).
literal_eval(kind) ==
    IF kind = <<>> THEN [exc |-> "SyntaxError", val |-> <<>>]
    ELSE IF (\A i \in 1..Len(kind) : kind[i] \in Digits)
            /\ (Len(kind) = 1 \/ kind[1] # "0")
    THEN [exc |-> "", val |-> kind]
    ELSE IF kind \in {<<"T", "r", "u", "e">>, <<"F", "a", "l", "s", "e">>,
                      <<"N", "o", "n", "e">>}
    THEN [exc |-> "", val |-> kind]
    ELSE IF Len(kind) >= 2 /\ kind[1] \in {"'", "\""} /\ kind[Len(kind)] = kind[1]
            /\ \A i \in 2..(Len(kind) - 1) : kind[i] \notin {"'", "\"", "\\"}
    THEN [exc |-> "", val |-> SubSeq(kind, 2, Len(kind) - 1)]
    ELSE IF kind[1] \notin Digits
            /\ \A i \in 1..Len(kind) :
                  kind[i] \notin {"'", "\"", "(", ")", "!", "@", ":", "%", " "}
    THEN [exc |-> "ValueError", val |-> <<>>]
    ELSE [exc |-> "SyntaxError", val |-> <<>>]

\* kind.split('.')
RECURSIVE SplitDots(_, _, _)
SplitDots(s, i, cur) ==
    IF i > Len(s) THEN <<cur>>
    ELSE IF s[i] = "." THEN <<cur>> \o SplitDots(s, i + 1, <<>>)
    ELSE SplitDots(s, i + 1, Append(cur, s[i]))

\* The values iterating v yields: a list's elements, a dict's keys.
IterValues(v) ==
    IF v.type = "list" THEN v.l
    ELSE LET ks == KeyOrder(DOMAIN v.d) IN [i \in 1..Len(ks) |-> StrValue(ks[i])]

\* GenericChecker._find_in_object: a dict and a list are both Iterable and
\* neither str nor bytes, so both are walked element by element.
RECURSIVE _find_in_object(_, _, _)
_find_in_object(test_value, path_segments, match) ==
    IF Len(path_segments) = 0 THEN match = PyStr(test_value)
    ELSE LET key == path_segments[1]
             rest == Tail(path_segments)
             got == xgetattr(test_value, key, _sentinel, TRUE)
         IN  IF got.exc \in {"KeyError", "AttributeError"} THEN FALSE
             ELSE IF got.val.type \in {"list", "dict"}
             THEN \E i \in 1..Len(IterValues(got.val)) :
                     _find_in_object(IterValues(got.val)[i], rest, match)
             ELSE _find_in_object(got.val, rest, match)

\* RoleCheck.__call__
RoleCheck_call(self, target, creds) ==
    LET m == Interpolate(self.match, 1, dict_from_object(target))
        roles == xgetattr(creds, <<"r", "o", "l", "e", "s">>, None, FALSE).val
    IN  IF m.exc = "KeyError" THEN "False"
        ELSE IF m.exc # "" THEN m.exc
        ELSE IF roles.type = "list" /\ Len(roles.l) > 0
             THEN IF \E i \in 1..Len(roles.l) : Lower(roles.l[i].s) = Lower(m.val)
                  THEN "True" ELSE "False"
             ELSE "False"

\* GenericChecker.__call__ comparing with self.match as it is written,
\* without `self.match % target`.
GenericChecker_call_NoInterpolation(self, target, creds) ==
    LET lit == literal_eval(self.kind)
    IN  IF lit.exc = "" THEN (IF self.match = lit.val THEN "True" ELSE "False")
        ELSE IF lit.exc # "ValueError" THEN lit.exc
        ELSE IF _find_in_object(creds, SplitDots(self.kind, 1, <<>>), self.match)
             THEN "True" ELSE "False"

\* GenericChecker.__call__
GenericChecker_call(self, target, creds) ==
    LET m == Interpolate(self.match, 1, dict_from_object(target))
        lit == literal_eval(self.kind)
    IN  IF m.exc = "KeyError" THEN "False"
        ELSE IF m.exc # "" THEN m.exc
        ELSE IF lit.exc = "" THEN (IF m.val = lit.val THEN "True" ELSE "False")
        ELSE IF lit.exc # "ValueError" THEN lit.exc
        ELSE IF _find_in_object(creds, SplitDots(self.kind, 1, <<>>), m.val)
             THEN "True" ELSE "False"

(***************************************************************************)
(* The rule catalog (enforcer.Rules, a dict with a default_rule) and the   *)
(* evaluation of a check tree.                                             *)
(***************************************************************************)
\* Rules(rules, default_rule): d is the dict's content.
Rules(d, default_rule) == [d |-> d, default_rule |-> default_rule]

EmptyDict == [k \in {} |-> None]

\* not default_rule: None and the empty string are false.
IsFalsy(v) == v.type = "None" \/ (v.type = "str" /\ v.s = <<>>)

\* __missing__ without the `self.default_rule not in self` test of line 60,
\* the default rule standing for itself when the catalog lacks it.
Rules_missing_Unchecked(self, key) ==
    IF IsFalsy(self.default_rule) \/ self.default_rule.type = "dict"
    THEN [exc |-> "KeyError", val |-> None]
    ELSE IF IsBaseCheck(self.default_rule)
    THEN [exc |-> "", val |-> self.default_rule]
    ELSE IF self.default_rule.s \notin DOMAIN self.d
    THEN [exc |-> "", val |-> TrueCheck]
    ELSE [exc |-> "", val |-> self.d[self.default_rule.s]]

\* __missing__ without the test of line 60: self[self.default_rule] with a
\* default rule that the catalog lacks calls __missing__ again, without end
\* until the interpreter raises RecursionError.
Rules_missing_Recursing(self, key) ==
    IF IsFalsy(self.default_rule) \/ self.default_rule.type = "dict"
    THEN [exc |-> "KeyError", val |-> None]
    ELSE IF IsBaseCheck(self.default_rule)
    THEN [exc |-> "", val |-> self.default_rule]
    ELSE IF self.default_rule.s \notin DOMAIN self.d
    THEN [exc |-> "RecursionError", val |-> None]
    ELSE [exc |-> "", val |-> self.d[self.default_rule.s]]

\* Rules.__missing__(key)
Rules_missing(self, key) ==
    IF IsFalsy(self.default_rule) \/ self.default_rule.type = "dict"
    THEN [exc |-> "KeyError", val |-> None]
    ELSE IF IsBaseCheck(self.default_rule)
    THEN [exc |-> "", val |-> self.default_rule]
    ELSE IF self.default_rule.s \notin DOMAIN self.d
    THEN [exc |-> "KeyError", val |-> None]
    ELSE [exc |-> "", val |-> self.d[self.default_rule.s]]

\* self.rules[key]: dict.__getitem__, falling back on __missing__.
Rules_getitem(self, key) ==
    IF key \in DOMAIN self.d THEN [exc |-> "", val |-> self.d[key]]
    ELSE Rules_missing(self, key)

\* The depth of nested calls at which Python raises RecursionError
\* (sys.getrecursionlimit(), scaled to the size of the catalogs here).
RecursionLimit == 4

RECURSIVE Call(_, _, _, _, _, _)

\* The calls of AndCheck and OrCheck without the return inside their loops.
Call_Eager(node, target, creds, snaps, k, depth) ==
    CASE node.type = "FalseCheck" -> [res |-> "False", k |-> k]
      [] node.type = "TrueCheck" -> [res |-> "True", k |-> k]
      [] node.type = "NotCheck" ->
            LET r == Call(node.rule, target, creds, snaps, k, depth)
            IN  [r EXCEPT !.res = IF @ = "True" THEN "False"
                                  ELSE IF @ = "False" THEN "True" ELSE @]
      [] node.type \in {"AndCheck", "OrCheck"} ->
            \* every child is called, also after the result is known
            LET stop == IF node.type = "AndCheck" THEN "False" ELSE "True"
                go == IF node.type = "AndCheck" THEN "True" ELSE "False"
                F[i \in 1..(Len(node.rules) + 1)] ==
                    \* the outcome of the loop up to child i - 1
                    IF i = 1 THEN [res |-> go, k |-> k]
                    ELSE LET r == Call(node.rules[i - 1], target, creds, snaps,
                                       F[i - 1].k, depth)
                         IN  IF F[i - 1].res # go THEN [F[i - 1] EXCEPT !.k = r.k]
                             ELSE r
            IN  F[Len(node.rules) + 1]
      [] node.type = "RuleCheck" ->
            IF k >= Len(snaps) THEN [res |-> "More", k |-> k]
            ELSE LET got == Rules_getitem(snaps[k + 1], node.match)
                 IN  IF got.exc = "KeyError" THEN [res |-> "False", k |-> k + 1]
                     ELSE IF depth >= RecursionLimit
                     THEN [res |-> "RecursionError", k |-> k + 1]
                     ELSE Call(got.val, target, creds, snaps, k + 1, depth + 1)
      [] node.type = "RoleCheck" ->
            [res |-> RoleCheck_call(node, target, creds), k |-> k]
      [] node.type = "GenericChecker" ->
            [res |-> GenericChecker_call(node, target, creds), k |-> k]
      [] OTHER -> \* None or a str is not callable
            [res |-> "TypeError", k |-> k]

\* node(target, creds, enforcer).  Every `rule:` check reads enforcer.rules
\* anew: snaps is the sequence of catalogs the call's reads observe, k the
\* number of reads made so far.  The outcome res is "True", "False", the
\* name of the exception that leaves the call, or "More" when the call
\* needs a read beyond those in snaps.
Call(node, target, creds, snaps, k, depth) ==
    CASE node.type = "FalseCheck" -> [res |-> "False", k |-> k]
      [] node.type = "TrueCheck" -> [res |-> "True", k |-> k]
      [] node.type = "NotCheck" ->
            LET r == Call(node.rule, target, creds, snaps, k, depth)
            IN  [r EXCEPT !.res = IF @ = "True" THEN "False"
                                  ELSE IF @ = "False" THEN "True" ELSE @]
      [] node.type \in {"AndCheck", "OrCheck"} ->
            \* for rule in self.rules: stop at the first False (And) / True (Or)
            LET stop == IF node.type = "AndCheck" THEN "False" ELSE "True"
                go == IF node.type = "AndCheck" THEN "True" ELSE "False"
                F[i \in 1..(Len(node.rules) + 1)] ==
                    \* the outcome of the loop up to child i - 1
                    IF i = 1 THEN [res |-> go, k |-> k]
                    ELSE IF F[i - 1].res # go THEN F[i - 1]
                    ELSE Call(node.rules[i - 1], target, creds, snaps,
                              F[i - 1].k, depth)
            IN  F[Len(node.rules) + 1]
      [] node.type = "RuleCheck" ->
            IF k >= Len(snaps) THEN [res |-> "More", k |-> k]
            ELSE LET got == Rules_getitem(snaps[k + 1], node.match)
                 IN  IF got.exc = "KeyError" THEN [res |-> "False", k |-> k + 1]
                     ELSE IF depth >= RecursionLimit
                     THEN [res |-> "RecursionError", k |-> k + 1]
                     ELSE Call(got.val, target, creds, snaps, k + 1, depth + 1)
      [] node.type = "RoleCheck" ->
            [res |-> RoleCheck_call(node, target, creds), k |-> k]
      [] node.type = "GenericChecker" ->
            [res |-> GenericChecker_call(node, target, creds), k |-> k]
      [] OTHER -> \* None or a str is not callable
            [res |-> "TypeError", k |-> k]

\* self.rules[rule](target, creds, self), or False on KeyError (lines 144-150)
CallLooked(got, target, creds, snaps) ==
    IF got.exc = "KeyError" THEN [res |-> "False", k |-> 2]
    ELSE Call(got.val, target, creds, snaps, 2, 1)

\* enforce without the `if exc:` test of line 153: the substitute exception
\* is never raised.
Outcome_NoSubstitute(r, exc, raise_error) ==
    IF r.res = "More" THEN [kind |-> "More", val |-> "", result |-> ""]
    ELSE IF r.res \notin {"True", "False"}
    THEN [kind |-> "raise", val |-> r.res, result |-> ""]
    ELSE IF raise_error /\ r.res = "False"
    THEN [kind |-> "raise", val |-> "PolicyNotAuthorized", result |-> r.res]
    ELSE [kind |-> "return", val |-> r.res, result |-> r.res]

\* Lines 152-158: raise on a false result when raise_error, else return it.
Outcome(r, exc, raise_error) ==
    IF r.res = "More" THEN [kind |-> "More", val |-> "", result |-> ""]
    ELSE IF r.res \notin {"True", "False"}
    THEN [kind |-> "raise", val |-> r.res, result |-> ""]
    ELSE IF raise_error /\ r.res = "False"
    THEN [kind |-> "raise",
          val |-> IF exc THEN "exc" ELSE "PolicyNotAuthorized",
          result |-> r.res]
    ELSE [kind |-> "return", val |-> r.res, result |-> r.res]

\* Enforcer.enforce, lines 138-150, after its load_rules() call: the
\* result of the evaluation.  snaps are the catalogs its reads of
\* self.rules observe, in order (`not self.rules`, self.rules[rule], then
\* one per `rule:` check evaluated).  rule is a check node or a rule name
\* (StrValue).
enforce_result(rule, target, creds, snaps) ==
    IF IsBaseCheck(rule)
    THEN Call(rule, target, creds, snaps, 0, 0)
    ELSE IF Len(snaps) < 1 THEN [res |-> "More", k |-> 0]
    ELSE IF DOMAIN snaps[1].d = {} THEN [res |-> "False", k |-> 1]
    ELSE IF Len(snaps) < 2 THEN [res |-> "More", k |-> 1]
    ELSE CallLooked(Rules_getitem(snaps[2], rule.s), target, creds, snaps)

\* Enforcer.enforce, lines 138-158: exc says whether the caller gave a
\* substitute exception.  kind is "return" (val the result), "raise" (val
\* the exception) or "More" (a further read of self.rules is needed).
enforce_eval(rule, target, creds, exc, raise_error, snaps) ==
    Outcome(enforce_result(rule, target, creds, snaps), exc, raise_error)

RECURSIVE Lookups(_, _, _, _, _, _)
\* The names node(target, creds, enforcer) looks up in enforcer.rules, in
\* the order of the lookups: one per `rule:` check that is called.
Lookups(node, target, creds, snaps, k, depth) ==
    CASE node.type = "NotCheck" ->
            Lookups(node.rule, target, creds, snaps, k, depth)
      [] node.type \in {"AndCheck", "OrCheck"} ->
            LET go == IF node.type = "AndCheck" THEN "True" ELSE "False"
                F[i \in 1..(Len(node.rules) + 1)] ==
                    \* the outcome of the loop up to child i - 1
                    IF i = 1 THEN [res |-> go, k |-> k]
                    ELSE IF F[i - 1].res # go THEN F[i - 1]
                    ELSE Call(node.rules[i - 1], target, creds, snaps,
                              F[i - 1].k, depth)
                N[i \in 1..(Len(node.rules) + 1)] ==
                    \* the lookups of the loop up to child i - 1
                    IF i = 1 THEN <<>>
                    ELSE IF F[i - 1].res # go THEN N[i - 1]
                    ELSE N[i - 1] \o Lookups(node.rules[i - 1], target, creds,
                                             snaps, F[i - 1].k, depth)
            IN  N[Len(node.rules) + 1]
      [] node.type = "RuleCheck" ->
            IF k >= Len(snaps) THEN <<>>
            ELSE LET got == Rules_getitem(snaps[k + 1], node.match)
                 IN  IF got.exc = "KeyError" \/ depth >= RecursionLimit
                     THEN <<node.match>>
                     ELSE <<node.match>> \o Lookups(got.val, target, creds, snaps,
                                                    k + 1, depth + 1)
      [] OTHER -> <<>>

\* The names Enforcer.enforce and the checks it calls look up in self.rules
\* (line 146, and checks.py line 201).
enforce_lookups(rule, target, creds, snaps) ==
    IF IsBaseCheck(rule) THEN Lookups(rule, target, creds, snaps, 0, 0)
    ELSE IF Len(snaps) < 2 \/ DOMAIN snaps[1].d = {} THEN <<>>
    ELSE LET got == Rules_getitem(snaps[2], rule.s)
         IN  IF got.exc = "KeyError" THEN <<rule.s>>
             ELSE <<rule.s>> \o Lookups(got.val, target, creds, snaps, 2, 1)

\* A catalog whose __missing__ keeps what it returns under the key looked
\* up (self[key] = value, as collections.defaultdict does).
Rules_after_getitem_Storing(self, key) ==
    IF key \in DOMAIN self.d \/ Rules_missing(self, key).exc # "" THEN self
    ELSE [self EXCEPT !.d = [n \in DOMAIN self.d \cup {key} |->
                                IF n = key THEN Rules_missing(self, key).val
                                ELSE self.d[n]]]

\* The catalog after self.rules[key]: dict.__getitem__ stores nothing, and
\* __missing__ returns or raises without an assignment to self[key] or to
\* self.default_rule.
Rules_after_getitem(self, key) == self

RECURSIVE AfterLookups(_, _)
\* The catalog after the lookups of names, in order.
AfterLookups(self, names) ==
    IF names = <<>> THEN self
    ELSE AfterLookups(Rules_after_getitem(self, Head(names)), Tail(names))

\* The dict comprehension of Rules.load_json: parsed[i] is what parse_rule
\* made of the i-th item's rule string; the first failure ends the call; of
\* two items with one name the later one stays.
BuildRules(items, parsed, default_rule) ==
    LET failed == {i \in 1..Len(items) : parsed[i].exc # ""}
        names == {items[i][1] : i \in 1..Len(items)}
        last(k) == CHOOSE i \in 1..Len(items) :
                      /\ items[i][1] = k
                      /\ \A j \in 1..Len(items) : items[j][1] = k => j <= i
    IN  IF failed # {}
        THEN [exc |-> parsed[CHOOSE i \in failed : \A j \in failed : i <= j].exc,
              val |-> Rules(EmptyDict, None)]
        ELSE [exc |-> "",
              val |-> Rules([k \in names |-> parsed[last(k)].val], default_rule)]

\* Rules.load_json: json.loads(data), then the rules parsed one by one.
\* data is a policy document, its items the (name, rule string) pairs in
\* the order of the JSON text.
load_json(data, default_rule, raise_error) ==
    IF ~data.json_ok THEN [exc |-> "JSONDecodeError", val |-> Rules(EmptyDict, None)]
    ELSE BuildRules(data.items,
                    [i \in 1..Len(data.items) |->
                        parse_rule(data.items[i][2], raise_error)],
                    default_rule)

(***************************************************************************)
(* The data of the model: names, rule strings, policy documents,           *)
(* credentials.                                                            *)
(***************************************************************************)
S_admin == <<"a", "d", "m", "i", "n">>
S_create == <<"c", "r", "e", "a", "t", "e">>
S_nosuch == <<"n", "o", "s", "u", "c", "h">>
S_role_admin == <<"r", "o", "l", "e", ":", "a", "d", "m", "i", "n">>
S_role_root == <<"r", "o", "l", "e", ":", "r", "o", "o", "t">>
S_rule_admin == <<"r", "u", "l", "e", ":", "a", "d", "m", "i", "n">>
S_rule_admin_or_dev ==
    S_rule_admin \o <<" ", "o", "r", " ", "r", "o", "l", "e", ":", "d", "e", "v">>

\* The contents the policy file can have: two catalogs and a text that is
\* not JSON.
PolicyDocs ==
    << [json_ok |-> TRUE,
        items |-> << <<S_admin, S_role_admin>>, <<S_create, S_rule_admin>> >>],
       [json_ok |-> TRUE,
        items |-> << <<S_admin, S_role_root>>, <<S_create, S_rule_admin_or_dev>> >>],
       [json_ok |-> FALSE, items |-> <<>>] >>

Creds ==
    { PyDict([k \in {<<"r", "o", "l", "e", "s">>} |-> PyList(<<StrValue(<<"a", "d", "m", "i", "n">>)>>)]),
      PyDict([k \in {<<"r", "o", "l", "e", "s">>} |-> PyList(<<StrValue(<<"d", "e", "v">>)>>)]) }

Targets == {PyDict(EmptyDict)}

\* The rule argument of the enforce calls of concurrent threads.
RuleArgs == {StrValue(S_admin), StrValue(S_create)}

\* The rules and default_rule arguments of Enforcer(...).
InitialRules == {EmptyDict, [k \in {S_admin} |-> TrueCheck]}
DefaultRules == {None, StrValue(S_admin)}

Enforcers == {"e1"}
Threads == {"t1", "t2"}

\* Bounds of the model.
MaxCalls == 2
MaxMtime == 2

(***************************************************************************)
(* The state.                                                              *)
(***************************************************************************)
VARIABLES
    file,            \* the policy file on disk: exists, mtime, data (index in
                     \* PolicyDocs), was (the data it had at each mtime so far)
    CACHE,           \* _cache.CACHE[policy_file]: 0 (no entry) or the entry dict's identity
    heap,            \* the entry dicts ever created: [data, mtime], 0 for a missing key
    rules,           \* Enforcer.rules, per enforcer
    default_rule,    \* Enforcer.default_rule
    raise_error,     \* Enforcer.raise_error
    load_once,       \* Enforcer.load_once
    _policy_loaded,  \* Enforcer._policy_loaded
    _load_lock,      \* Enforcer._load_lock: the thread holding it, "" when free
    pc,              \* per thread: the statement it is at
    frame,           \* per thread: the arguments and locals of its call; entry0 is
                     \* the cache entry as read_file found it (<<>>: none)
    ret,             \* per thread: how its call ended
    calls,           \* the number of calls started
    fileReads,       \* per enforcer: the number of fp.read() its loads executed
    installed,       \* per enforcer: whether a _set_rules call has completed
    complete,        \* per enforcer: the catalogs it held outside of _set_rules
    p_pc,            \* the parser run: "input", "parsed", "rendered"
    p_words,         \* the words of the rule string given to parse_rule
    p_rule,          \* the rule string
    p_raise,         \* raise_error of the Parser
    p_out,           \* the outcome of parse_rule(p_rule, p_raise)
    p_round          \* the outcome of parse_rule(str(p_out.val), p_raise)

vars == <<file, CACHE, heap, rules, default_rule, raise_error, load_once,
          _policy_loaded, _load_lock, pc, frame, ret, calls, fileReads,
          installed, complete, p_pc, p_words, p_rule, p_raise, p_out, p_round>>

enforcerVars == <<file, CACHE, heap, rules, default_rule, raise_error, load_once,
                  _policy_loaded, _load_lock, pc, frame, ret, calls, fileReads,
                  installed, complete>>

parserVars == <<p_pc, p_words, p_rule, p_raise, p_out, p_round>>

NoFrame ==
    [op |-> "", e |-> "", rule |-> None, target |-> None, creds |-> None,
     exc |-> FALSE, force_reload |-> FALSE, overwrite |-> TRUE,
     mtime |-> 0, cache_info |-> 0, buf |-> 0, reloaded |-> FALSE, data |-> 0,
     newrules |-> EmptyDict, snaps |-> <<>>, entry0 |-> <<>>]

NoRet == [kind |-> "", val |-> "", result |-> ""]
NoOutcome == [exc |-> "none", val |-> None]

\* Enforcer.__init__ for every enforcer; no call is running.
EnforcerInit ==
    /\ file \in {[exists |-> FALSE, mtime |-> 0, data |-> 0, was |-> <<>>],
                 [exists |-> TRUE, mtime |-> 1, data |-> 1, was |-> <<1>>]}
    /\ CACHE = 0
    /\ heap = <<>>
    /\ default_rule \in [Enforcers -> DefaultRules]
    /\ \E init \in [Enforcers -> InitialRules] :
          /\ rules = [e \in Enforcers |-> Rules(init[e], default_rule[e])]
          /\ complete = [e \in Enforcers |-> {Rules(init[e], default_rule[e])}]
    /\ raise_error \in [Enforcers -> BOOLEAN]
    /\ load_once \in [Enforcers -> BOOLEAN]
    /\ _policy_loaded = [e \in Enforcers |-> FALSE]
    /\ _load_lock = [e \in Enforcers |-> ""]
    /\ pc = [t \in Threads |-> "idle"]
    /\ frame = [t \in Threads |-> NoFrame]
    /\ ret = [t \in Threads |-> NoRet]
    /\ calls = 0
    /\ fileReads = [e \in Enforcers |-> 0]
    /\ installed = [e \in Enforcers |-> FALSE]

ParserOff ==
    /\ p_pc = "off"
    /\ p_words = <<>>
    /\ p_rule = <<>>
    /\ p_raise = FALSE
    /\ p_out = NoOutcome
    /\ p_round = NoOutcome

Init == EnforcerInit /\ ParserOff

(***************************************************************************)
(* Calls of the threads.                                                   *)
(***************************************************************************)
\* The enforcers of a behaviour are those its initial state constructs
\* (DOMAIN rules).
\* A thread calls enforcer.enforce(rule, target, creds[, exc]).  enforce
\* first calls self.load_rules() and reads its own arguments only after
\* that, so they are drawn where they are first read (enforce_step).
CallEnforce(t) ==
    /\ pc[t] = "idle"
    /\ calls < MaxCalls
    /\ \E e \in DOMAIN rules :
          frame' = [frame EXCEPT ![t] = [NoFrame EXCEPT !.op = "enforce", !.e = e]]
    /\ pc' = [pc EXCEPT ![t] = "lr_fast"]
    /\ calls' = calls + 1
    /\ UNCHANGED <<file, CACHE, heap, rules, default_rule, raise_error, load_once,
                   _policy_loaded, _load_lock, ret, fileReads, installed, complete,
                   parserVars>>

\* A thread calls enforcer.load_rules(force_reload, overwrite).  overwrite
\* is read first in _set_rules and drawn there (load_rules_load_json).
CallLoadRules(t) ==
    /\ pc[t] = "idle"
    /\ calls < MaxCalls
    /\ \E e \in DOMAIN rules, force_reload \in BOOLEAN :
          frame' = [frame EXCEPT ![t] =
                       [NoFrame EXCEPT !.op = "load_rules", !.e = e,
                                       !.force_reload = force_reload]]
    /\ pc' = [pc EXCEPT ![t] = "lr_fast"]
    /\ calls' = calls + 1
    /\ UNCHANGED <<file, CACHE, heap, rules, default_rule, raise_error, load_once,
                   _policy_loaded, _load_lock, ret, fileReads, installed, complete,
                   parserVars>>

\* The frame of a call that leaves load_rules: of its arguments and locals
\* only overwrite and reloaded are kept, for the record.
Leaving(f) ==
    [NoFrame EXCEPT !.op = f.op, !.e = f.e, !.overwrite = f.overwrite,
                    !.reloaded = f.reloaded]

\* load_rules returns: an enforce call goes on to evaluate, a load_rules
\* call has ended.
LoadReturns(t) ==
    /\ pc' = [pc EXCEPT ![t] = IF frame[t].op = "enforce" THEN "en_eval" ELSE "done"]
    /\ frame' = [frame EXCEPT ![t] = Leaving(@)]
    /\ ret' = [ret EXCEPT ![t] = IF frame[t].op = "enforce" THEN @
                                 ELSE [kind |-> "return", val |-> "None", result |-> ""]]

\* An exception leaves load_rules (and enforce, which does not catch it).
Raises(t, exception) ==
    /\ pc' = [pc EXCEPT ![t] = "done"]
    /\ frame' = [frame EXCEPT ![t] = Leaving(@)]
    /\ ret' = [ret EXCEPT ![t] = [kind |-> "raise", val |-> exception, result |-> ""]]

\* Leaving the `with self._load_lock:` block, by return or by exception.
Release(t) ==
    _load_lock' = [_load_lock EXCEPT ![frame[t].e] = ""]

(***************************************************************************)
(* Enforcer.load_rules (enforcer.py, lines 115-131), statement by          *)
(* statement, with _cache.read_file (_cache.py, lines 19-41) inlined.      *)
(***************************************************************************)
\* line 119: the first check of the double-checked locking, without the lock.
load_rules_check(t) ==
    /\ pc[t] = "lr_fast"
    /\ IF load_once[frame[t].e] /\ _policy_loaded[frame[t].e]
       THEN LoadReturns(t)
       ELSE /\ pc' = [pc EXCEPT ![t] = "lr_lock"]
            /\ UNCHANGED <<ret, frame>>
    /\ UNCHANGED <<file, CACHE, heap, rules, default_rule, raise_error, load_once,
                   _policy_loaded, _load_lock, calls, fileReads, installed,
                   complete, parserVars>>

\* line 121: with self._load_lock
load_rules_acquire(t) ==
    /\ pc[t] = "lr_lock"
    /\ _load_lock[frame[t].e] = ""
    /\ _load_lock' = [_load_lock EXCEPT ![frame[t].e] = t]
    /\ pc' = [pc EXCEPT ![t] = "lr_recheck"]
    /\ UNCHANGED <<file, CACHE, heap, rules, default_rule, raise_error, load_once,
                   _policy_loaded, frame, ret, calls, fileReads, installed,
                   complete, parserVars>>

\* load_rules without the second check of line 122.
load_rules_recheck_Single(t) ==
    /\ pc[t] = "lr_recheck"
    /\ pc' = [pc EXCEPT ![t] = "rf_stat"]
    /\ UNCHANGED <<file, CACHE, heap, rules, default_rule, raise_error, load_once,
                   _policy_loaded, _load_lock, frame, ret, calls, fileReads,
                   installed, complete, parserVars>>

\* line 122: the second check, under the lock.
load_rules_recheck(t) ==
    /\ pc[t] = "lr_recheck"
    /\ IF load_once[frame[t].e] /\ _policy_loaded[frame[t].e]
       THEN LoadReturns(t) /\ Release(t)
       ELSE /\ pc' = [pc EXCEPT ![t] = "rf_stat"]
            /\ UNCHANGED <<ret, _load_lock, frame>>
    /\ UNCHANGED <<file, CACHE, heap, rules, default_rule, raise_error, load_once,
                   _policy_loaded, calls, fileReads, installed, complete,
                   parserVars>>

\* read_file lines 27-31: _delete_cached_file when force_reload, then
\* os.path.getmtime, which raises OSError when the file does not exist.
read_file_stat(t) ==
    /\ pc[t] = "rf_stat"
    /\ CACHE' = IF frame[t].force_reload THEN 0 ELSE CACHE
    /\ IF file.exists
       THEN /\ frame' = [frame EXCEPT ![t].mtime = file.mtime,
                                      ![t].entry0 = IF CACHE = 0 THEN <<>>
                                                    ELSE <<heap[CACHE]>>]
            /\ pc' = [pc EXCEPT ![t] = "rf_setdefault"]
            /\ UNCHANGED <<ret, _load_lock>>
       ELSE /\ Raises(t, "OSError")
            /\ Release(t)
    /\ UNCHANGED <<file, heap, rules, default_rule, raise_error, load_once,
                   _policy_loaded, calls, fileReads, installed, complete,
                   parserVars>>

\* read_file line 32: cache_info = CACHE.setdefault(filename, {})
read_file_setdefault(t) ==
    /\ pc[t] = "rf_setdefault"
    /\ IF CACHE = 0
       THEN /\ heap' = Append(heap, [data |-> 0, mtime |-> 0])
            /\ CACHE' = Len(heap) + 1
            /\ frame' = [frame EXCEPT ![t].cache_info = Len(heap) + 1]
       ELSE /\ frame' = [frame EXCEPT ![t].cache_info = CACHE]
            /\ UNCHANGED <<heap, CACHE>>
    /\ pc' = [pc EXCEPT ![t] = "rf_test"]
    /\ UNCHANGED <<file, rules, default_rule, raise_error, load_once,
                   _policy_loaded, _load_lock, ret, calls, fileReads, installed,
                   complete, parserVars>>

\* The test of line 34 with >= for >.
MustRead_NotOlder(cache_info, mtime) ==
    \/ (cache_info.data = 0 /\ cache_info.mtime = 0)
    \/ mtime >= cache_info.mtime

\* read_file line 34: if not cache_info or mtime > cache_info.get('mtime', 0)
MustRead(cache_info, mtime) ==
    \/ (cache_info.data = 0 /\ cache_info.mtime = 0)
    \/ mtime > cache_info.mtime

read_file_test(t) ==
    /\ pc[t] = "rf_test"
    /\ pc' = [pc EXCEPT ![t] =
                 IF MustRead(heap[frame[t].cache_info], frame[t].mtime)
                 THEN "rf_read" ELSE "rf_return"]
    /\ UNCHANGED <<file, CACHE, heap, rules, default_rule, raise_error, load_once,
                   _policy_loaded, _load_lock, frame, ret, calls, fileReads,
                   installed, complete, parserVars>>

\* read_file lines 36-37: open(filename) and fp.read()
read_file_read(t) ==
    /\ pc[t] = "rf_read"
    /\ IF file.exists
       THEN /\ frame' = [frame EXCEPT ![t].buf = file.data]
            /\ fileReads' = [fileReads EXCEPT ![frame[t].e] = @ + 1]
            /\ pc' = [pc EXCEPT ![t] = "rf_store_data"]
            /\ UNCHANGED <<ret, _load_lock>>
       ELSE /\ Raises(t, "OSError")
            /\ Release(t)
            /\ UNCHANGED fileReads
    /\ UNCHANGED <<file, CACHE, heap, rules, default_rule, raise_error, load_once,
                   _policy_loaded, calls, installed, complete, parserVars>>

\* read_file line 37: cache_info['data'] = (what fp.read() returned)
read_file_store_data(t) ==
    /\ pc[t] = "rf_store_data"
    /\ heap' = [heap EXCEPT ![frame[t].cache_info].data = frame[t].buf]
    /\ pc' = [pc EXCEPT ![t] = "rf_store_mtime"]
    /\ UNCHANGED <<file, CACHE, rules, default_rule, raise_error, load_once,
                   _policy_loaded, _load_lock, frame, ret, calls, fileReads,
                   installed, complete, parserVars>>

\* read_file lines 38-39: cache_info['mtime'] = mtime; reloaded = True
read_file_store_mtime(t) ==
    /\ pc[t] = "rf_store_mtime"
    /\ heap' = [heap EXCEPT ![frame[t].cache_info].mtime = frame[t].mtime]
    /\ frame' = [frame EXCEPT ![t].reloaded = TRUE]
    /\ pc' = [pc EXCEPT ![t] = "rf_return"]
    /\ UNCHANGED <<file, CACHE, rules, default_rule, raise_error, load_once,
                   _policy_loaded, _load_lock, ret, calls, fileReads, installed,
                   complete, parserVars>>

\* read_file line 41: return reloaded, cache_info['data']
read_file_return(t) ==
    /\ pc[t] = "rf_return"
    /\ frame' = [frame EXCEPT ![t].data = heap[frame[t].cache_info].data]
    /\ pc' = [pc EXCEPT ![t] = "lr_set_loaded"]
    /\ UNCHANGED <<file, CACHE, heap, rules, default_rule, raise_error, load_once,
                   _policy_loaded, _load_lock, ret, calls, fileReads, installed,
                   complete, parserVars>>

\* load_rules line 127: self._policy_loaded = True
load_rules_set_loaded(t) ==
    /\ pc[t] = "lr_set_loaded"
    /\ _policy_loaded' = [_policy_loaded EXCEPT ![frame[t].e] = TRUE]
    /\ pc' = [pc EXCEPT ![t] = "lr_decide"]
    /\ UNCHANGED <<file, CACHE, heap, rules, default_rule, raise_error, load_once,
                   _load_lock, frame, ret, calls, fileReads, installed, complete,
                   parserVars>>

\* load_rules lines 128-130 with loaded the outcome of Rules.load_json:
\* its exception leaves load_rules, its rules go to _set_rules.
Loaded(t, loaded) ==
    IF loaded.exc # ""
    THEN /\ Raises(t, loaded.exc)
         /\ Release(t)
    ELSE /\ \E overwrite \in (IF frame[t].op = "enforce" THEN {TRUE} ELSE BOOLEAN) :
            /\ frame' = [frame EXCEPT ![t].newrules = loaded.val.d,
                                      ![t].overwrite = overwrite]
            /\ pc' = [pc EXCEPT ![t] = IF overwrite THEN "lr_set_rules"
                                       ELSE "lr_update"]
         /\ UNCHANGED <<ret, _load_lock>>

\* load_rules without the condition of line 128: the data is parsed and
\* installed in every call.
load_rules_load_json_Always(t) ==
    /\ pc[t] = "lr_decide"
    /\ Loaded(t, load_json(PolicyDocs[frame[t].data],
                           default_rule[frame[t].e], raise_error[frame[t].e]))
    /\ UNCHANGED <<file, CACHE, heap, rules, default_rule, raise_error, load_once,
                   _policy_loaded, calls, fileReads, installed, complete,
                   parserVars>>

\* load_rules lines 128-129: if reloaded or not self.rules, then
\* Rules.load_json(data, ...), whose exceptions leave load_rules.
load_rules_load_json(t) ==
    /\ pc[t] = "lr_decide"
    /\ IF frame[t].reloaded \/ DOMAIN rules[frame[t].e].d = {}
       THEN Loaded(t, load_json(PolicyDocs[frame[t].data],
                                default_rule[frame[t].e], raise_error[frame[t].e]))
       ELSE /\ LoadReturns(t)
            /\ Release(t)
    /\ UNCHANGED <<file, CACHE, heap, rules, default_rule, raise_error, load_once,
                   _policy_loaded, calls, fileReads, installed, complete,
                   parserVars>>

\* _set_rules line 111 (overwrite): self.rules = Rules(rules, self.default_rule);
\* then the with block ends.
_set_rules_overwrite(t) ==
    /\ pc[t] = "lr_set_rules"
    /\ LET e == frame[t].e
           new == Rules(frame[t].newrules, default_rule[e])
       IN  /\ rules' = [rules EXCEPT ![e] = new]
           /\ complete' = [complete EXCEPT ![e] = @ \cup {new}]
           /\ installed' = [installed EXCEPT ![e] = TRUE]
    /\ LoadReturns(t)
    /\ Release(t)
    /\ UNCHANGED <<file, CACHE, heap, default_rule, raise_error, load_once,
                   _policy_loaded, calls, fileReads, parserVars>>

\* self.rules.update(rules) storing the rules one by one, with other
\* threads running in between.
_set_rules_update_PerKey(t) ==
    /\ pc[t] = "lr_update"
    /\ LET e == frame[t].e
           todo == {k \in DOMAIN frame[t].newrules :
                       \/ k \notin DOMAIN rules[e].d
                       \/ rules[e].d[k] # frame[t].newrules[k]}
       IN  IF todo = {}
           THEN /\ complete' = [complete EXCEPT ![e] = @ \cup {rules[e]}]
                /\ installed' = [installed EXCEPT ![e] = TRUE]
                /\ LoadReturns(t)
                /\ Release(t)
                /\ UNCHANGED rules
           ELSE /\ \E key \in todo :
                      rules' = [rules EXCEPT ![e].d =
                                   [k \in DOMAIN @ \cup {key} |->
                                       IF k = key THEN frame[t].newrules[key]
                                       ELSE @[k]]]
                /\ UNCHANGED <<complete, installed, pc, ret, _load_lock, frame>>
    /\ UNCHANGED <<file, CACHE, heap, default_rule, raise_error, load_once,
                   _policy_loaded, calls, fileReads, parserVars>>

\* _set_rules line 113 (not overwrite): self.rules.update(rules) stores the
\* new rules into the catalog that the readers hold.  dict.update of a dict
\* with str keys is one call of the interpreter that runs no Python code,
\* so that under the interpreter lock of CPython and PyPy (the interpreters
\* setup.py names) no other thread runs during it; then the with block ends.
_set_rules_update(t) ==
    /\ pc[t] = "lr_update"
    /\ LET e == frame[t].e
           new == [rules[e] EXCEPT !.d =
                      [k \in DOMAIN @ \cup DOMAIN frame[t].newrules |->
                          IF k \in DOMAIN frame[t].newrules
                          THEN frame[t].newrules[k] ELSE @[k]]]
       IN  /\ rules' = [rules EXCEPT ![e] = new]
           /\ complete' = [complete EXCEPT ![e] = @ \cup {new}]
           /\ installed' = [installed EXCEPT ![e] = TRUE]
    /\ LoadReturns(t)
    /\ Release(t)
    /\ UNCHANGED <<file, CACHE, heap, default_rule, raise_error, load_once,
                   _policy_loaded, calls, fileReads, parserVars>>

(***************************************************************************)
(* Enforcer.enforce after load_rules (enforcer.py, lines 138-158).         *)
(***************************************************************************)
\* One step of the evaluation in frame f: now is the outcome with the reads
\* made so far, next the outcome with one more read of self.rules.
Advance(t, f, now, next) ==
    IF now.kind # "More"
    THEN /\ ret' = [ret EXCEPT ![t] = now]
         /\ pc' = [pc EXCEPT ![t] = "done"]
         /\ frame' = [frame EXCEPT ![t] = f]
    ELSE /\ frame' = [frame EXCEPT ![t] =
                         [f EXCEPT !.snaps = Append(@, rules[f.e])]]
         /\ IF next.kind # "More"
            THEN /\ ret' = [ret EXCEPT ![t] = next]
                 /\ pc' = [pc EXCEPT ![t] = "done"]
            ELSE UNCHANGED <<ret, pc>>

EvalFrame(f, snaps) ==
    enforce_eval(f.rule, f.target, f.creds, f.exc, raise_error[f.e], snaps)

AdvanceFrame(t, f) ==
    Advance(t, f, EvalFrame(f, f.snaps), EvalFrame(f, Append(f.snaps, rules[f.e])))

\* One read of self.rules and the evaluation up to the next read, or to the
\* end of the call.  The first step draws the call's arguments.
enforce_step(t) ==
    /\ pc[t] = "en_eval"
    /\ \E rule \in (IF frame[t].rule = None THEN RuleArgs ELSE {frame[t].rule}),
          target \in (IF frame[t].rule = None THEN Targets ELSE {frame[t].target}),
          creds \in (IF frame[t].rule = None THEN Creds ELSE {frame[t].creds}) :
          AdvanceFrame(t, [frame[t] EXCEPT !.rule = rule, !.target = target,
                                           !.creds = creds])
    /\ UNCHANGED <<file, CACHE, heap, rules, default_rule, raise_error, load_once,
                   _policy_loaded, _load_lock, calls, fileReads, installed,
                   complete, parserVars>>

\* The caller takes the call's outcome; the thread is free for its next call.
Return(t) ==
    /\ pc[t] = "done"
    /\ pc' = [pc EXCEPT ![t] = "idle"]
    /\ frame' = [frame EXCEPT ![t] = NoFrame]
    /\ ret' = [ret EXCEPT ![t] = NoRet]
    /\ UNCHANGED <<file, CACHE, heap, rules, default_rule, raise_error, load_once,
                   _policy_loaded, _load_lock, calls, fileReads, installed,
                   complete, parserVars>>

\* Someone writes the policy file: new content, a later mtime.
WriteFile ==
    /\ file.mtime < MaxMtime
    /\ \E d \in 1..Len(PolicyDocs) :
          file' = [exists |-> TRUE, mtime |-> file.mtime + 1, data |-> d,
                   was |-> Append(file.was, d)]
    /\ UNCHANGED <<CACHE, heap, rules, default_rule, raise_error, load_once,
                   _policy_loaded, _load_lock, pc, frame, ret, calls, fileReads,
                   installed, complete, parserVars>>

Next ==
    \/ \E t \in Threads : CallEnforce(t)
    \/ \E t \in Threads : CallLoadRules(t)
    \/ \E t \in Threads : load_rules_check(t)
    \/ \E t \in Threads : load_rules_acquire(t)
    \/ \E t \in Threads : load_rules_recheck(t)
    \/ \E t \in Threads : read_file_stat(t)
    \/ \E t \in Threads : read_file_setdefault(t)
    \/ \E t \in Threads : read_file_test(t)
    \/ \E t \in Threads : read_file_read(t)
    \/ \E t \in Threads : read_file_store_data(t)
    \/ \E t \in Threads : read_file_store_mtime(t)
    \/ \E t \in Threads : read_file_return(t)
    \/ \E t \in Threads : load_rules_set_loaded(t)
    \/ \E t \in Threads : load_rules_load_json(t)
    \/ \E t \in Threads : _set_rules_overwrite(t)
    \/ \E t \in Threads : _set_rules_update(t)
    \/ \E t \in Threads : enforce_step(t)
    \/ \E t \in Threads : Return(t)
    \/ WriteFile

Spec == Init /\ [][Next]_vars

(***************************************************************************)
(* Two enforcers on the same policy file, which share _cache.CACHE.  The   *)
(* behaviours start after the first enforcer has loaded the file.          *)
(***************************************************************************)
SharedEnforcers == {"e1", "e2"}

\* The catalog Rules.load_json makes of the first policy document.
FirstRules == load_json(PolicyDocs[1], None, FALSE).val

\* e1 has loaded the file (line 130 done).  e2 has loaded it as well, from
\* the cache, or is newly constructed with its initial rules.
SharedInit ==
    /\ file = [exists |-> TRUE, mtime |-> 1, data |-> 1, was |-> <<1>>]
    /\ CACHE = 1
    /\ heap = << [data |-> 1, mtime |-> 1] >>
    /\ default_rule = [e \in SharedEnforcers |-> None]
    /\ raise_error = [e \in SharedEnforcers |-> FALSE]
    /\ \E once \in BOOLEAN : load_once = [e \in SharedEnforcers |-> once]
    /\ \E second \in {[rules |-> FirstRules, loaded |-> TRUE]}
                       \cup {[rules |-> Rules(init, None), loaded |-> FALSE] :
                                 init \in InitialRules} :
          /\ rules = [e \in SharedEnforcers |->
                         IF e = "e1" THEN FirstRules ELSE second.rules]
          /\ complete = [e \in SharedEnforcers |->
                            {IF e = "e1" THEN FirstRules ELSE second.rules}]
          /\ _policy_loaded = [e \in SharedEnforcers |-> e = "e1" \/ second.loaded]
          /\ installed = [e \in SharedEnforcers |-> e = "e1" \/ second.loaded]
    /\ fileReads = [e \in SharedEnforcers |-> IF e = "e1" THEN 1 ELSE 0]
    /\ _load_lock = [e \in SharedEnforcers |-> ""]
    /\ pc = [t \in Threads |-> "idle"]
    /\ frame = [t \in Threads |-> NoFrame]
    /\ ret = [t \in Threads |-> NoRet]
    /\ calls = 0
    /\ ParserOff

SpecShared == SharedInit /\ [][Next]_vars

(***************************************************************************)
(* The parser on its own: parse_rule applied to rule strings, and to the   *)
(* text its result renders to.                                             *)
(***************************************************************************)
\* Bounds: the words of a rule string of any shape, the terms of a chain
\* `c1 and c2 or ... cn`.
MaxWords == 4
MaxTerms == 4

W_and == <<"a", "n", "d">>
W_or == <<"o", "r">>
W_not == <<"n", "o", "t">>

\* The words rule strings are made of: the parentheses, the operators,
\* checks (role:admin, @, !, and x, which is no check), a quoted string.
Words ==
    {<<"(">>, <<")">>, W_and, W_or, W_not, S_role_admin, <<"@">>, <<"!">>,
     <<"x">>, <<"\"", "s", "\"">>}

ChainChecks == {S_role_admin, <<"@">>}

\* The chains of n checks joined by and / or.
Chains(n) ==
    {w \in [1..(2 * n - 1) -> ChainChecks \cup {W_and, W_or}] :
        \A i \in 1..(2 * n - 1) :
            IF i % 2 = 1 THEN w[i] \in ChainChecks ELSE w[i] \in {W_and, W_or}}

RuleWords ==
    UNION {[1..n -> Words] : n \in 0..MaxWords}
    \cup UNION {Chains(n) : n \in 3..MaxTerms}

\* An enforcer that nobody calls.
EnforcerOff ==
    /\ file = [exists |-> FALSE, mtime |-> 0, data |-> 0]
    /\ CACHE = 0
    /\ heap = <<>>
    /\ default_rule = [e \in Enforcers |-> None]
    /\ rules = [e \in Enforcers |-> Rules(EmptyDict, None)]
    /\ complete = [e \in Enforcers |-> {Rules(EmptyDict, None)}]
    /\ raise_error = [e \in Enforcers |-> FALSE]
    /\ load_once = [e \in Enforcers |-> TRUE]
    /\ _policy_loaded = [e \in Enforcers |-> FALSE]
    /\ _load_lock = [e \in Enforcers |-> ""]
    /\ pc = [t \in Threads |-> "idle"]
    /\ frame = [t \in Threads |-> NoFrame]
    /\ ret = [t \in Threads |-> NoRet]
    /\ calls = 0
    /\ fileReads = [e \in Enforcers |-> 0]
    /\ installed = [e \in Enforcers |-> FALSE]

\* A rule string (its words joined by one space) and the Parser's raise_error.
ParseInit ==
    /\ EnforcerOff
    /\ p_pc = "input"
    /\ p_words \in RuleWords
    /\ p_rule = JoinStr(p_words, <<" ">>)
    /\ p_raise \in BOOLEAN
    /\ p_out = NoOutcome
    /\ p_round = NoOutcome

\* parse_rule(p_rule, p_raise)
Parse ==
    /\ p_pc = "input"
    /\ p_out' = parse_rule(p_rule, p_raise)
    /\ p_pc' = "parsed"
    /\ UNCHANGED <<p_words, p_rule, p_raise, p_round, enforcerVars>>

\* parse_rule(str(result), p_raise), for a call that returned.
Render ==
    /\ p_pc = "parsed"
    /\ p_out.exc = ""
    /\ p_round' = parse_rule(StrOf(p_out.val), p_raise)
    /\ p_pc' = "rendered"
    /\ UNCHANGED <<p_words, p_rule, p_raise, p_out, enforcerVars>>

ParseNext == Parse \/ Render

SpecParse == ParseInit /\ [][ParseNext]_vars

(***************************************************************************)
(* Enforcer.enforce on an enforcer whose policy is loaded (load_once and   *)
(* _policy_loaded: its load_rules() call returns at line 119), called by   *)
(* one thread at a time.                                                   *)
(***************************************************************************)
EvalThread == "t1"

\* The rule dicts of the enforcers: those of the policy documents, the
\* empty one and the initial ones.
S_user_create == <<"u", "s", "e", "r", ":", "c", "r", "e", "a", "t", "e">>
S_owner == <<"o", "w", "n", "e", "r">>
S_article_delete ==
    <<"a", "r", "t", "i", "c", "l", "e", ":", "d", "e", "l", "e", "t", "e">>
S_deny_all == <<"d", "e", "n", "y", "_", "a", "l", "l">>
S_always == <<"a", "l", "w", "a", "y", "s">>
S_no_such_rule == <<"n", "o", "_", "s", "u", "c", "h", "_", "r", "u", "l", "e">>
S_roles == <<"r", "o", "l", "e", "s">>
S_user_id == <<"u", "s", "e", "r", "_", "i", "d">>
S_owner_rule == S_user_id \o <<":", "%", "(">> \o S_user_id \o <<")", "s">>
S_admin_or_owner ==
    S_rule_admin \o <<" ", "o", "r", " ", "r", "u", "l", "e", ":">> \o S_owner

\* The policy document of the example scenarios:
\*   {"admin": "role:admin", "user:create": "rule:admin",
\*    "owner": "user_id:%(user_id)s",
\*    "article:delete": "rule:admin or rule:owner",
\*    "deny_all": "!", "always": ""}
ScenarioDoc ==
    [json_ok |-> TRUE,
     items |-> << <<S_admin, S_role_admin>>,
                  <<S_user_create, S_rule_admin>>,
                  <<S_owner, S_owner_rule>>,
                  <<S_article_delete, S_admin_or_owner>>,
                  <<S_deny_all, <<"!">> >>,
                  <<S_always, <<>> >> >>]

\* The documents the catalogs of the evaluation are loaded from.
EvalDocs ==
    {PolicyDocs[i] : i \in {j \in 1..Len(PolicyDocs) : PolicyDocs[j].json_ok}}
    \cup {ScenarioDoc}

EvalRules ==
    {load_json(doc, None, FALSE).val.d : doc \in EvalDocs} \cup InitialRules

\* The credentials and the targets of the scenarios.
cred_lily == PyDict([k \in {S_roles} |-> PyList(<<StrValue(S_admin)>>)])
cred_kate ==
    PyDict([k \in {S_roles, S_user_id} |->
               IF k = S_roles THEN PyList(<<StrValue(<<"u", "s", "e", "r">>)>>)
               ELSE StrValue(<<"K">>)])
article_of_kate == PyDict([k \in {S_user_id} |-> StrValue(<<"K">>)])

\* Credentials with a nested mapping {a: {b: "K"}} and with lists of
\* records {a: [{b: "K"}, {b: "L"}]}, {a: [{b: "L"}]}.
cred_nested ==
    PyDict([k \in {<<"a">>} |-> PyDict([j \in {<<"b">>} |-> StrValue(<<"K">>)])])
cred_records ==
    PyDict([k \in {<<"a">>} |->
               PyList(<<PyDict([j \in {<<"b">>} |-> StrValue(<<"K">>)]),
                        PyDict([j \in {<<"b">>} |-> StrValue(<<"L">>)])>>)])
cred_other_records ==
    PyDict([k \in {<<"a">>} |->
               PyList(<<PyDict([j \in {<<"b">>} |-> StrValue(<<"L">>)])>>)])

EvalCreds ==
    Creds \cup {cred_lily, cred_kate, cred_nested, cred_records, cred_other_records}

\* The generic checks a.b:K, a.b:%(user_id)s and a.c:K given to enforce.
GenericArgs ==
    {Check("GenericChecker", <<"a", ".", "b">>, <<"K">>),
     Check("GenericChecker", <<"a", ".", "b">>,
           <<"%", "(">> \o S_user_id \o <<")", "s">>),
     Check("GenericChecker", <<"a", ".", "c">>, <<"K">>)}
EvalTargets == Targets \cup {article_of_kate}

EvalDefaultRules == {None, StrValue(S_admin), StrValue(S_nosuch), TrueCheck}

\* The `rule:NAME` check.
RuleCheck(name) == Check("RuleCheck", <<"r", "u", "l", "e">>, name)

\* And / Or nodes given to enforce, of constants and `rule:` checks.
ConnectiveArgs ==
    {OrCheck(<<RuleCheck(S_admin), RuleCheck(S_create)>>),
     AndCheck(<<RuleCheck(S_admin), RuleCheck(S_create)>>),
     OrCheck(<<FalseCheck, RuleCheck(S_create), RuleCheck(S_admin)>>),
     AndCheck(<<TrueCheck, RuleCheck(S_create), RuleCheck(S_admin)>>),
     OrCheck(<<TrueCheck, RuleCheck(S_admin)>>),
     AndCheck(<<FalseCheck, RuleCheck(S_admin)>>)}

\* The rule argument of enforce: a rule name or a check node.
EvalRuleArgs ==
    {StrValue(S_admin), StrValue(S_create), StrValue(S_nosuch),
     Check("RuleCheck", <<"r", "u", "l", "e">>, S_nosuch)}
    \cup ConnectiveArgs
    \cup {StrValue(S_user_create), StrValue(S_article_delete),
          StrValue(S_deny_all), StrValue(S_always), StrValue(S_no_such_rule)}
    \cup GenericArgs

EvalInit ==
    /\ file = [exists |-> TRUE, mtime |-> 1, data |-> 1, was |-> <<1>>]
    /\ CACHE = 0
    /\ heap = <<>>
    /\ default_rule \in [Enforcers -> EvalDefaultRules]
    /\ \E d \in [Enforcers -> EvalRules] :
          /\ rules = [e \in Enforcers |-> Rules(d[e], default_rule[e])]
          /\ complete = [e \in Enforcers |-> {Rules(d[e], default_rule[e])}]
    /\ raise_error \in [Enforcers -> BOOLEAN]
    /\ load_once = [e \in Enforcers |-> TRUE]
    /\ _policy_loaded = [e \in Enforcers |-> TRUE]
    /\ _load_lock = [e \in Enforcers |-> ""]
    /\ pc = [t \in Threads |-> "idle"]
    /\ frame = [t \in Threads |-> NoFrame]
    /\ ret = [t \in Threads |-> NoRet]
    /\ calls = 0
    /\ fileReads = [e \in Enforcers |-> 0]
    /\ installed = [e \in Enforcers |-> TRUE]
    /\ ParserOff

\* The reads of self.rules of a call that no load interleaves with.
SameCatalog(e) == [i \in 1..(RecursionLimit + 3) |-> rules[e]]

\* enforcer.enforce(rule, target, creds[, exc]) from its call to its end.
Enforce(t) ==
    /\ pc[t] = "idle"
    /\ \E e \in Enforcers, rule \in EvalRuleArgs, target \in EvalTargets,
          creds \in EvalCreds, exc \in BOOLEAN :
          /\ frame' = [frame EXCEPT ![t] =
                          [NoFrame EXCEPT !.op = "enforce", !.e = e, !.rule = rule,
                                          !.target = target, !.creds = creds,
                                          !.exc = exc,
                                          !.snaps = SubSeq(SameCatalog(e), 1,
                                              enforce_result(rule, target, creds,
                                                             SameCatalog(e)).k)]]
          /\ ret' = [ret EXCEPT ![t] =
                        enforce_eval(rule, target, creds, exc, raise_error[e],
                                     SameCatalog(e))]
          /\ rules' = [rules EXCEPT ![e] =
                          AfterLookups(@, enforce_lookups(rule, target, creds,
                                                          SameCatalog(e)))]
    /\ pc' = [pc EXCEPT ![t] = "done"]
    /\ UNCHANGED <<file, CACHE, heap, default_rule, raise_error, load_once,
                   _policy_loaded, _load_lock, calls, fileReads, installed,
                   complete, parserVars>>

EvalNext == Enforce(EvalThread) \/ Return(EvalThread)

SpecEval == EvalInit /\ [][EvalNext]_vars

(***************************************************************************)
(* Enforcer.enforce on catalogs whose `rule:` checks name rules that are   *)
(* missing or that refer back to themselves, with default rules that are   *)
(* names or `rule:` nodes.                                                 *)
(***************************************************************************)
S_rule_nosuch == <<"r", "u", "l", "e", ":">> \o S_nosuch
S_rule_create == <<"r", "u", "l", "e", ":">> \o S_create

\* {"admin": "role:admin", "create": "rule:nosuch"}: a reference to a rule
\* the catalog lacks.
DanglingDoc ==
    [json_ok |-> TRUE,
     items |-> << <<S_admin, S_role_admin>>, <<S_create, S_rule_nosuch>> >>]

\* {"admin": "rule:create", "create": "rule:admin"}: two rules that refer
\* to each other.
CyclicDoc ==
    [json_ok |-> TRUE,
     items |-> << <<S_admin, S_rule_create>>, <<S_create, S_rule_admin>> >>]

ChainDocs == {PolicyDocs[1], DanglingDoc, CyclicDoc}
ChainRules == {load_json(doc, None, FALSE).val.d : doc \in ChainDocs}

\* The default_rule argument of Enforcer(...): unset, a name, a check node.
ChainDefaultRules ==
    {None, StrValue(S_admin), StrValue(S_create), StrValue(S_nosuch),
     RuleCheck(S_nosuch), TrueCheck}

ChainInit ==
    /\ file = [exists |-> TRUE, mtime |-> 1, data |-> 1, was |-> <<1>>]
    /\ CACHE = 0
    /\ heap = <<>>
    /\ default_rule \in [Enforcers -> ChainDefaultRules]
    /\ \E d \in [Enforcers -> ChainRules] :
          /\ rules = [e \in Enforcers |-> Rules(d[e], default_rule[e])]
          /\ complete = [e \in Enforcers |-> {Rules(d[e], default_rule[e])}]
    /\ raise_error \in [Enforcers -> BOOLEAN]
    /\ load_once = [e \in Enforcers |-> TRUE]
    /\ _policy_loaded = [e \in Enforcers |-> TRUE]
    /\ _load_lock = [e \in Enforcers |-> ""]
    /\ pc = [t \in Threads |-> "idle"]
    /\ frame = [t \in Threads |-> NoFrame]
    /\ ret = [t \in Threads |-> NoRet]
    /\ calls = 0
    /\ fileReads = [e \in Enforcers |-> 0]
    /\ installed = [e \in Enforcers |-> TRUE]
    /\ ParserOff

SpecChain == ChainInit /\ [][EvalNext]_vars

(***************************************************************************)
(* Properties of the loader (Spec).                                        *)
(***************************************************************************)
\* C1: on an enforcer with load_once, in every reachable state
\* _policy_loaded implies that the catalog parsed from the policy file has
\* been installed (the flag is set only after the installation).
C1_LoadedImpliesInstalled ==
    \A e \in Enforcers : (load_once[e] /\ _policy_loaded[e]) => installed[e]

\* C2: every catalog that a running enforce call has read is a complete
\* one, the catalog before an installation or the one after it, never one
\* holding only part of the newly loaded rules.
C2_ReadersSeeCompleteCatalogs ==
    \A t \in Threads :
        \A i \in 1..Len(frame[t].snaps) :
            frame[t].snaps[i] \in complete[frame[t].e]

\* An enforce call has read two different catalogs, before and after the
\* installation of a load_rules call with overwrite unset.
C2_Witness ==
    \E t, u \in Threads :
        /\ frame[u].op = "load_rules" /\ pc[u] = "done" /\ ~frame[u].overwrite
        /\ frame[t].op = "enforce"
        /\ Len(frame[t].snaps) >= 2
        /\ frame[t].snaps[1] # frame[t].snaps[2]

\* C3: with load_once the calls of all threads on an enforcer read the
\* policy file at most once.
C3_AtMostOneRead ==
    \A e \in Enforcers : load_once[e] => fileReads[e] <= 1

\* Every thread is in an enforce call that is past its load_rules() call,
\* and the file has been read.
C3_Witness ==
    \E e \in Enforcers :
        /\ load_once[e]
        /\ fileReads[e] = 1
        /\ \A t \in Threads :
              frame[t].op = "enforce" /\ frame[t].e = e /\ pc[t] = "en_eval"

(***************************************************************************)
(* Properties of enforce (SpecEval).                                       *)
(***************************************************************************)
\* The rule argument is a name, or a `rule:` check of a name, that the
\* catalog does not hold.
Absent(rule, cat) ==
    \/ rule.type = "str" /\ rule.s \notin DOMAIN cat.d
    \/ rule.type = "RuleCheck" /\ rule.match \notin DOMAIN cat.d

\* The completed enforce calls.
EnforceCalls == {t \in Threads : pc[t] = "done" /\ frame[t].op = "enforce"}

UnknownRuleCalls ==
    {t \in EnforceCalls :
        ~raise_error[frame[t].e] /\ Absent(frame[t].rule, rules[frame[t].e])}

\* The default rule is a pre-built node or the name of a rule of the catalog.
DefaultResolves(cat) ==
    \/ IsBaseCheck(cat.default_rule)
    \/ cat.default_rule.type = "str" /\ cat.default_rule.s \in DOMAIN cat.d

DefaultTree(cat) ==
    IF IsBaseCheck(cat.default_rule) THEN cat.default_rule
    ELSE cat.d[cat.default_rule.s]

\* What a check tree evaluates to in a catalog.
EvalIn(node, target, creds, cat) ==
    Call(node, target, creds, [i \in 1..(RecursionLimit + 3) |-> cat], 0, 0).res

\* C4 as stated: with raise_error unset, enforce of a name that is not in
\* the catalog, or of a `rule:NAME` check with NAME not in the catalog,
\* returns false, whatever the catalog and the default rule.
C4_UnknownRuleDenied ==
    \A t \in UnknownRuleCalls : ret[t].kind = "return" /\ ret[t].val = "False"

\* C4: with raise_error unset, enforce of a name that is not in the catalog
\* returns false when the catalog is empty or the default rule is unset or
\* names no rule of the catalog, and so does a `rule:NAME` check of such a
\* name when the default rule is unset or names no rule of the catalog;
\* otherwise the result is that of the default rule's tree.
C4_UnknownRuleDeniedWithoutDefault ==
    \A t \in UnknownRuleCalls :
        LET f == frame[t]
            cat == rules[f.e]
        IN  /\ ret[t].kind = "return"
            /\ ret[t].val =
                  IF \/ f.rule.type = "str" /\ DOMAIN cat.d = {}
                     \/ ~DefaultResolves(cat)
                  THEN "False"
                  ELSE EvalIn(DefaultTree(cat), f.target, f.creds, cat)

\* enforce of an unknown name on a non-empty catalog whose default rule
\* names no rule has returned false.
C4_Witness ==
    \E t \in UnknownRuleCalls :
        /\ frame[t].rule = StrValue(S_nosuch)
        /\ DOMAIN rules[frame[t].e].d # {}
        /\ default_rule[frame[t].e] = StrValue(S_nosuch)
        /\ ret[t].val = "False"

\* C9: an enforce call whose evaluation is false raises PolicyNotAuthorized,
\* or the caller's substitute exception when given, if raise_error is set;
\* without raise_error it raises nothing and returns the boolean result.
C9_RaiseOnDeny ==
    \A t \in EnforceCalls :
        LET f == frame[t]
            r == enforce_result(f.rule, f.target, f.creds, SameCatalog(f.e)).res
        IN  /\ (raise_error[f.e] /\ r = "False") =>
                  /\ ret[t].kind = "raise"
                  /\ ret[t].val = IF f.exc THEN "exc" ELSE "PolicyNotAuthorized"
            /\ ~raise_error[f.e] =>
                  /\ r \in {"True", "False"}
                  /\ ret[t].kind = "return"
                  /\ ret[t].val = r

\* A denied call with a substitute exception has raised it.
C9_Witness ==
    \E t \in EnforceCalls :
        /\ raise_error[frame[t].e]
        /\ frame[t].exc
        /\ ret[t].kind = "raise"
        /\ ret[t].val = "exc"

\* The completed enforce calls of an And or an Or node.
ConnectiveCalls ==
    {t \in EnforceCalls : frame[t].rule.type \in {"AndCheck", "OrCheck"}}

\* Child i of the node of call t, evaluated on its own: its result and the
\* number of its reads of the catalog.
ChildAlone(t, i) ==
    Call(frame[t].rule.rules[i], frame[t].target, frame[t].creds,
         SameCatalog(frame[t].e), 0, 0)

\* The result that ends the loop of the node: false for And, true for Or.
StopValue(node) == IF node.type = "AndCheck" THEN "False" ELSE "True"
GoValue(node) == IF node.type = "AndCheck" THEN "True" ELSE "False"

\* The children of the node of call t that evaluate to the stop value.
Stoppers(t) ==
    {i \in 1..Len(frame[t].rule.rules) :
        ChildAlone(t, i).res = StopValue(frame[t].rule)}

\* The last child that the call evaluates.
LastEvaluated(t) ==
    IF Stoppers(t) = {} THEN Len(frame[t].rule.rules)
    ELSE CHOOSE i \in Stoppers(t) : \A j \in Stoppers(t) : i <= j

\* The reads of the catalog of children 1..n of the node of call t.
ReadsUpTo(t, n) ==
    LET S[i \in 0..n] == IF i = 0 THEN 0 ELSE S[i - 1] + ChildAlone(t, i).k
    IN  S[n]

\* C11: Or evaluates its children from the left and stops at the first true
\* one, And at the first false one, no later child being evaluated (the
\* reads of the catalog are those of the children up to that one); an Or
\* without a true child is false, an And without a false child is true.
C11_ShortCircuit ==
    \A t \in ConnectiveCalls :
        /\ ret[t].result = IF Stoppers(t) = {} THEN GoValue(frame[t].rule)
                           ELSE StopValue(frame[t].rule)
        /\ Len(frame[t].snaps) = ReadsUpTo(t, LastEvaluated(t))

\* An Or whose first child is true was evaluated without the reads of its
\* second child, a `rule:` check.
C11_Witness ==
    \E t \in ConnectiveCalls :
        /\ frame[t].rule.type = "OrCheck"
        /\ ChildAlone(t, 1).res = "True"
        /\ ChildAlone(t, 1).k > 0
        /\ ChildAlone(t, 2).k > 0
        /\ Len(frame[t].snaps) = ChildAlone(t, 1).k
        /\ ret[t].result = "True"

\* The rule string of name n is empty in the document that the catalog cat
\* was loaded from.
HasEmptyRule(cat, n) ==
    \E doc \in EvalDocs :
        /\ \E i \in 1..Len(doc.items) : doc.items[i] = <<n, <<>> >>
        /\ load_json(doc, None, FALSE).val.d = cat.d

\* The completed enforce calls of the name of a rule with an empty string.
EmptyRuleCalls ==
    {t \in EnforceCalls :
        /\ frame[t].rule.type = "str"
        /\ HasEmptyRule(rules[frame[t].e], frame[t].rule.s)}

\* C12: parsing the empty rule string returns the True node, which is true
\* for every target and credential, and enforcing a rule of the catalog
\* whose rule string is empty returns true.
C12_EmptyRuleAllows ==
    /\ \A raising \in BOOLEAN :
          LET got == parse_rule(<<>>, raising) IN
          /\ got = [exc |-> "", val |-> TrueCheck]
          /\ \A target \in EvalTargets, creds \in EvalCreds :
                Call(got.val, target, creds, <<>>, 0, 0).res = "True"
    /\ \A t \in EmptyRuleCalls :
          /\ ret[t].kind = "return"
          /\ ret[t].val = "True"

\* The rule `always` of the scenario catalog, whose string is empty, was
\* enforced and allowed, with raise_error set.
C12_Witness ==
    \E t \in EmptyRuleCalls :
        /\ frame[t].rule.s = S_always
        /\ raise_error[frame[t].e]
        /\ ret[t].kind = "return"
        /\ ret[t].val = "True"

\* The completed enforce calls of a generic check whose match interpolates.
GenericCalls ==
    {t \in EnforceCalls :
        /\ frame[t].rule.type = "GenericChecker"
        /\ Interpolate(frame[t].rule.match, 1, frame[t].target).exc = ""}

\* The walk of C17 from value along the segments segs: a missing segment
\* is false, a segment that is not the last one and yields a list matches
\* when an element of the list does, the end of the path compares str(v).
RECURSIVE WalkMatches(_, _, _)
WalkMatches(value, segs, match) ==
    IF segs = <<>> THEN PyStr(value) = match
    ELSE IF value.type # "dict" \/ Head(segs) \notin DOMAIN value.d THEN FALSE
    ELSE LET next == value.d[Head(segs)] IN
         IF next.type = "list" /\ Tail(segs) # <<>>
         THEN \E i \in 1..Len(next.l) : WalkMatches(next.l[i], Tail(segs), match)
         ELSE WalkMatches(next, Tail(segs), match)

\* C17: a generic check `a.b:M` whose kind is no literal walks the
\* credential along a, then b: on a nested mapping {a: {b: v}} it is true
\* iff str(v) equals the interpolated match, on a list of records under a
\* iff the rest of the walk matches an element, and false when a segment
\* is missing.
C17_NestedWalk ==
    \A t \in GenericCalls :
        LET f == frame[t]
            m == Interpolate(f.rule.match, 1, f.target).val
        IN  ret[t].result =
                IF WalkMatches(f.creds, SplitDots(f.rule.kind, 1, <<>>), m)
                THEN "True" ELSE "False"

\* The names looked up in a catalog: those given to enforce and those of
\* the `rule:` checks.
LookupNames ==
    {r.s : r \in {x \in EvalRuleArgs : x.type = "str"}}
    \cup {r.match : r \in {x \in EvalRuleArgs : x.type = "RuleCheck"}}

\* C16: looking up a name that the catalog lacks returns the default
\* rule's tree when default_rule is a pre-built node or the name of a rule
\* of the catalog, and fails with KeyError when default_rule is unset or a
\* name that the catalog lacks; the lookup ends in every case.
C16_MissingNameLookup ==
    \A e \in Enforcers :
        \A key \in LookupNames \ DOMAIN rules[e].d :
            LET cat == rules[e]
                got == Rules_getitem(cat, key)
            IN  IF IsBaseCheck(cat.default_rule)
                THEN got = [exc |-> "", val |-> cat.default_rule]
                ELSE IF cat.default_rule.type = "str"
                        /\ cat.default_rule.s \in DOMAIN cat.d
                THEN got = [exc |-> "", val |-> cat.d[cat.default_rule.s]]
                ELSE got = [exc |-> "KeyError", val |-> None]

\* enforce of a name that the catalog lacks was answered by the tree of the
\* default rule, a name of the catalog.
C16_Witness ==
    \E t \in EnforceCalls :
        LET cat == rules[frame[t].e] IN
        /\ frame[t].rule.type = "str"
        /\ frame[t].rule.s \notin DOMAIN cat.d
        /\ cat.default_rule.type = "str"
        /\ cat.default_rule.s \in DOMAIN cat.d
        /\ Rules_getitem(cat, frame[t].rule.s).val = cat.d[cat.default_rule.s]
        /\ ret[t].val = "True"

\* The catalog of the scenarios, without default rule.
ScenarioRules == load_json(ScenarioDoc, None, FALSE).val

\* The completed calls enforce(name, target, creds) on the catalog of the
\* scenarios, without raise_error.
ScenarioCalls(name, target, creds) ==
    {t \in EnforceCalls :
        /\ frame[t].rule = StrValue(name)
        /\ frame[t].target = target
        /\ frame[t].creds = creds
        /\ ~raise_error[frame[t].e]
        /\ default_rule[frame[t].e] = None
        /\ rules[frame[t].e] = ScenarioRules}

Returned(t, val) == ret[t].kind = "return" /\ ret[t].val = val

\* C18: the scenarios S1..S7 on the example catalog: user:create is allowed
\* to lily (S1) and denied to kate (S2); article:delete on kate's article is
\* allowed to kate (S3) and to lily (S4); deny_all is denied (S5), always
\* is allowed (S6), and a name that is no rule is denied (S7).
C18_Scenarios ==
    /\ \A t \in ScenarioCalls(S_user_create, PyDict(EmptyDict), cred_lily) :
          Returned(t, "True")
    /\ \A t \in ScenarioCalls(S_user_create, PyDict(EmptyDict), cred_kate) :
          Returned(t, "False")
    /\ \A t \in ScenarioCalls(S_article_delete, article_of_kate, cred_kate) :
          Returned(t, "True")
    /\ \A t \in ScenarioCalls(S_article_delete, article_of_kate, cred_lily) :
          Returned(t, "True")
    /\ \A t \in ScenarioCalls(S_deny_all, PyDict(EmptyDict), cred_lily) :
          Returned(t, "False")
    /\ \A t \in ScenarioCalls(S_deny_all, PyDict(EmptyDict), cred_kate) :
          Returned(t, "False")
    /\ \A t \in ScenarioCalls(S_always, PyDict(EmptyDict), cred_kate) :
          Returned(t, "True")
    /\ \A t \in ScenarioCalls(S_no_such_rule, PyDict(EmptyDict), cred_lily) :
          Returned(t, "False")

\* Scenario S3 has run: kate was allowed to delete her own article.
C18_Witness ==
    \E t \in ScenarioCalls(S_article_delete, article_of_kate, cred_kate) :
        Returned(t, "True")

(***************************************************************************)
(* Properties of the file cache (Spec).                                    *)
(***************************************************************************)
\* The threads whose read_file call has just returned to load_rules.
ReadFileReturned == {t \in Threads : pc[t] = "lr_set_loaded"}

\* The condition of C13 for reading the file, on what the call found: its
\* force_reload argument, the entry of the path, the file's mtime.
ShouldRead(f) ==
    \/ f.force_reload
    \/ f.entry0 = <<>>
    \/ f.mtime > f.entry0[1].mtime

\* C13: read_file(path, force_reload) reads the file and returns
\* reloaded = true exactly when force_reload is set, or the path has no
\* entry, or the file's mtime is greater than the entry's recorded one, and
\* then the entry holds the bytes read and that mtime; otherwise it returns
\* reloaded = false with the stored bytes and leaves the entry as it was.
C13_ReadWhenStale ==
    \A t \in ReadFileReturned :
        LET f == frame[t] IN
        /\ f.reloaded = ShouldRead(f)
        /\ ShouldRead(f) =>
              /\ CACHE # 0
              /\ heap[CACHE] = [data |-> f.buf, mtime |-> f.mtime]
              /\ f.buf \in {file.was[i] : i \in 1..Len(file.was)}
              /\ f.data = f.buf
        /\ ~ShouldRead(f) =>
              /\ CACHE # 0
              /\ heap[CACHE] = f.entry0[1]
              /\ f.data = f.entry0[1].data

\* A call without force_reload that found an entry of the file's mtime
\* returned the stored bytes without reading.
C13_Witness ==
    \E t \in ReadFileReturned :
          /\ ~frame[t].force_reload
          /\ frame[t].entry0 # <<>>
          /\ frame[t].entry0[1].mtime = frame[t].mtime
          /\ ~frame[t].reloaded
          /\ frame[t].data = frame[t].entry0[1].data

\* No thread is between the two stores of read_file (lines 37 and 38),
\* where the entry has its new bytes and not yet its new mtime.
NoStoreRunning ==
    \A t \in Threads : pc[t] \notin {"rf_store_data", "rf_store_mtime"}

\* C14: in every reachable state, whatever the interleaving of read_file
\* calls and writes of the file, the bytes of the cache entry are the
\* content the file had at the entry's recorded mtime.  (Stated for the
\* entries with both fields stored and outside of the two stores.)
C14_EntryMatchesFile ==
    (CACHE # 0 /\ heap[CACHE].mtime # 0 /\ NoStoreRunning) =>
        /\ heap[CACHE].mtime \in 1..Len(file.was)
        /\ heap[CACHE].data = file.was[heap[CACHE].mtime]

(***************************************************************************)
(* Properties of load_rules (Spec).                                        *)
(***************************************************************************)
\* A load_rules call on enforcer e has returned without an exception: a
\* call of load_rules itself, or the one enforce begins with.
LoadCompleted(e) ==
    \E t \in Threads :
        /\ frame[t].e = e
        /\ \/ frame[t].op = "load_rules" /\ pc[t] = "done" /\ ret[t].kind = "return"
           \/ frame[t].op = "enforce" /\ pc[t] = "en_eval"

\* A step in which a thread stats the policy file of enforcer e
\* (os.path.getmtime, read_file line 31).
StatsFile(e) ==
    \E t \in Threads :
        pc[t] = "rf_stat" /\ frame[t].e = e /\ pc'[t] # "rf_stat"

\* C15: with load_once set, once a load_rules call on an enforcer has
\* completed successfully, no step stats or reads the policy file for that
\* enforcer and its catalog stays as it is.
C15_LoadOnceIsFinal ==
    [][\A e \in Enforcers :
          (load_once[e] /\ LoadCompleted(e)) =>
              /\ ~StatsFile(e)
              /\ fileReads'[e] = fileReads[e]
              /\ rules'[e] = rules[e]]_vars

\* The same once a load_rules call has installed a catalog (_set_rules done).
LoadOnceIsFinalAfterInstall ==
    [][\A e \in Enforcers :
          (load_once[e] /\ installed[e]) =>
              /\ ~StatsFile(e)
              /\ fileReads'[e] = fileReads[e]
              /\ rules'[e] = rules[e]]_vars

\* Thread t executes line 128 of load_rules in this step, having passed the
\* load_once guard and called read_file.
Decides(t) == pc[t] = "lr_decide" /\ pc'[t] # "lr_decide"

\* Thread t executes _set_rules in this step.
Installs(t) ==
    pc[t] \in {"lr_set_rules", "lr_update"} /\ pc'[t] \notin {"lr_set_rules", "lr_update"}

\* The catalog that _set_rules leaves when given newrules.
InstalledRules(old, newrules, overwrite, default) ==
    IF overwrite THEN Rules(newrules, default)
    ELSE [old EXCEPT !.d = [k \in DOMAIN @ \cup DOMAIN newrules |->
                              IF k \in DOMAIN newrules THEN newrules[k] ELSE @[k]]]

\* What C19 requires of the step of line 128 with parsed the outcome of
\* parsing the cached bytes.
DecidesRight(t, e, parsed) ==
    IF frame[t].reloaded \/ DOMAIN rules[e].d = {}
    THEN IF parsed.exc # ""
         THEN pc'[t] = "done" /\ ret'[t].kind = "raise"
         ELSE /\ pc'[t] \in {"lr_set_rules", "lr_update"}
              /\ frame'[t].newrules = parsed.val.d
    ELSE /\ pc'[t] \in {"done", "en_eval"}
         /\ ret'[t].kind # "raise"
         /\ rules' = rules
         /\ default_rule' = default_rule
         /\ _policy_loaded'[e]

\* C19: a load_rules call that passes the load_once guard installs the
\* rules parsed from the cached bytes exactly when the cache reports
\* reloaded = true or the catalog is empty; with reloaded = false and a
\* catalog that is not empty it leaves the catalog and the default rule as
\* they are and only marks the policy loaded.
C19_InstallWhenReloadedOrEmpty ==
    [][/\ \A t \in Threads :
          LET e == frame[t].e IN
          /\ Decides(t) =>
                DecidesRight(t, e, load_json(PolicyDocs[frame[t].data],
                                             default_rule[e], raise_error[e]))
          /\ Installs(t) =>
                /\ rules'[e] = InstalledRules(rules[e], frame[t].newrules,
                                              frame[t].overwrite, default_rule[e])
                /\ default_rule' = default_rule
       /\ \A e \in Enforcers :
             rules'[e] # rules[e] => \E t \in Threads : Installs(t) /\ frame[t].e = e
      ]_vars

\* A load_rules call without load_once found the cached bytes unchanged and
\* a catalog that is not empty, and returned with the catalog as it was.
C19_Witness ==
    \E t \in Threads :
        /\ pc[t] = "done"
        /\ frame[t].op = "load_rules"
        /\ ~load_once[frame[t].e]
        /\ ret[t].kind = "return"
        /\ ~frame[t].reloaded
        /\ DOMAIN rules[frame[t].e].d # {}
        /\ _policy_loaded[frame[t].e]
        /\ fileReads[frame[t].e] >= 1

\* The exceptions with which a load fails: of the file system, of
\* json.loads, of the parser under raise_error.
LoadErrors == {"OSError", "JSONDecodeError", "InvalidRuleException"}

\* Thread t leaves its call in this step with a failure of the load.
LoadFails(t) ==
    /\ pc[t] # "done"
    /\ pc'[t] = "done"
    /\ ret'[t].kind = "raise"
    /\ ret'[t].val \in LoadErrors

\* C20: with load_once set, a load_rules call that fails with an I/O error,
\* a JSON decode error or an invalid rule leaves the policy not marked as
\* loaded and the catalog as it was (so that the next call loads again).
C20_FailedLoadNotMarked ==
    [][\A t \in Threads :
          (LoadFails(t) /\ load_once[frame[t].e]) =>
              /\ ~_policy_loaded'[frame[t].e]
              /\ rules' = rules]_vars

\* C23: an enforce call on an enforcer without load_once evaluates against
\* one catalog: all its reads of self.rules (the emptiness test, the lookup
\* of the rule, the lookups of the `rule:` checks) observe the same
\* catalog, also when a load_rules call installs a new one meanwhile.
C23_OneCatalogPerCall ==
    \A t \in Threads :
        (frame[t].op = "enforce" /\ ~load_once[frame[t].e]) =>
            \A i, j \in 1..Len(frame[t].snaps) : frame[t].snaps[i] = frame[t].snaps[j]

(***************************************************************************)
(* Termination of the evaluation (SpecChain).                              *)
(***************************************************************************)
RECURSIVE RuleNames(_)
\* The names the `rule:` checks of a tree refer to.
RuleNames(node) ==
    CASE node.type = "RuleCheck" -> {node.match}
      [] node.type = "NotCheck" -> RuleNames(node.rule)
      [] node.type \in {"AndCheck", "OrCheck"} ->
            UNION {RuleNames(node.rules[i]) : i \in 1..Len(node.rules)}
      [] OTHER -> {}

\* The rules of the catalog that rule n refers to.
RefersTo(cat, n) == RuleNames(cat.d[n]) \cap DOMAIN cat.d

RECURSIVE ReachedFrom(_, _, _)
\* The rules reached from those of S through at most i references.
ReachedFrom(cat, S, i) ==
    IF i = 0 THEN S
    ELSE ReachedFrom(cat, S \cup UNION {RefersTo(cat, n) : n \in S}, i - 1)

\* No rule of the catalog refers to itself, directly or through others.
Acyclic(cat) ==
    \A n \in DOMAIN cat.d :
        n \notin ReachedFrom(cat, RefersTo(cat, n), Cardinality(DOMAIN cat.d))

\* C24: on a catalog whose `rule:NAME` references between the rules it
\* holds form no cycle, enforce of a rule name ends with a boolean result
\* of the evaluation, whatever the default rule.
C24_AcyclicTerminates ==
    \A t \in EnforceCalls :
        (frame[t].rule.type = "str" /\ Acyclic(rules[frame[t].e])) =>
            ret[t].result \in {"True", "False"}

\* The names a completed enforce call has looked up.
LookedUp(t) ==
    enforce_lookups(frame[t].rule, frame[t].target, frame[t].creds, frame[t].snaps)

\* An enforce call runs from its call to its end.
Evaluates(t) == pc[t] = "idle" /\ pc'[t] = "done" /\ frame'[t].op = "enforce"

\* C26: an enforce call on a loaded enforcer leaves the catalog, with the
\* check nodes of its trees, and the default rule as they were, whether it
\* returns true, returns false or raises.
C26_EvaluationLeavesCatalog ==
    [][\A t \in Threads :
          Evaluates(t) => rules' = rules /\ default_rule' = default_rule]_vars

\* A call has raised after the lookup of a name the catalog lacks, which
\* the default rule stood for.
C26_Witness ==
    \E t \in EnforceCalls :
        /\ ret[t].kind = "raise"
        /\ DefaultResolves(rules[frame[t].e])
        /\ \E i \in 1..Len(LookedUp(t)) :
              LookedUp(t)[i] \notin DOMAIN rules[frame[t].e].d

(***************************************************************************)
(* Properties of enforcers that share the file cache (SpecShared).         *)
(***************************************************************************)
\* In this step the load_rules call that enforce begins with returns, in a
\* call on an enforcer without load_once that found the file as it is now
\* (no write since its os.path.getmtime), a valid document.
LoadOfCurrentFileEnds(t) ==
    /\ frame[t].op = "enforce"
    /\ pc[t] # "en_eval"
    /\ pc'[t] = "en_eval"
    /\ ~load_once[frame[t].e]
    /\ frame[t].mtime = file.mtime
    /\ PolicyDocs[file.data].json_ok

\* The catalog of enforcer e after the step is the parse of the file.
CatalogIsFileAfter(e) ==
    rules'[e].d = load_json(PolicyDocs[file.data], None, FALSE).val.d

\* C21: without load_once and with enforcers sharing the file cache, after
\* the file is modified the next enforce on each enforcer that had loaded
\* the file evaluates against the catalog parsed from the new content,
\* whichever enforcer read the new file first.
C21_EachEnforcerSeesNewFile ==
    [][\A t \in Threads :
          (LoadOfCurrentFileEnds(t) /\ file.mtime > 1 /\ installed[frame[t].e]) =>
              CatalogIsFileAfter(frame[t].e)]_vars

\* Enforcer e was constructed with a non-empty rule map: it never held an
\* empty catalog.
NeverEmpty(e) == \A c \in complete[e] : DOMAIN c.d # {}

\* Every rule of the catalog parsed holds in the catalog cat.
HoldsRulesOf(cat, parsed) ==
    \A k \in DOMAIN parsed.d : k \in DOMAIN cat.d /\ cat.d[k] = parsed.d[k]

\* C22: an enforcer constructed with a non-empty rule map whose
\* policy_loaded flag is true holds the rules parsed from the policy file,
\* also when another enforcer has read the file through the shared cache
\* before.  (Stated outside of the enforcer's load_rules calls and for a
\* file that was never rewritten; overwrite = true makes the catalog equal
\* to the parse, of which this is the part that any overwrite gives.)
C22_LoadedCatalogIsFile ==
    \A e \in DOMAIN rules :
        (/\ _policy_loaded[e]
         /\ _load_lock[e] = ""
         /\ file.exists
         /\ Len(file.was) = 1
         /\ NeverEmpty(e)
         /\ PolicyDocs[file.data].json_ok) =>
            HoldsRulesOf(rules[e], load_json(PolicyDocs[file.data], None, FALSE).val)

(***************************************************************************)
(* Properties of the parser (SpecParse).                                   *)
(***************************************************************************)
W_quoted == <<"\"", "s", "\"">>

\* The words that are checks of the grammar: kind:match, @ and !.
IsCheckWord(w) == w \in {S_role_admin, <<"@">>, <<"!">>}

\* The words i..j of w form an expression of the grammar:
\* check | quoted | ( expr ) | not expr | expr and expr | expr or expr
RECURSIVE IsExpr(_, _, _)
IsExpr(w, i, j) ==
    \/ i = j /\ (IsCheckWord(w[i]) \/ w[i] = W_quoted)
    \/ i + 1 < j /\ w[i] = <<"(">> /\ w[j] = <<")">> /\ IsExpr(w, i + 1, j - 1)
    \/ i < j /\ w[i] = W_not /\ IsExpr(w, i + 1, j)
    \/ \E k \in (i + 1)..(j - 1) :
          w[k] \in {W_and, W_or} /\ IsExpr(w, i, k - 1) /\ IsExpr(w, k + 1, j)

WellFormed(w) == w # <<>> /\ IsExpr(w, 1, Len(w))

\* A valid rule built from checks, not, and, or and parentheses.
ValidRule(w) == WellFormed(w) /\ \A i \in 1..Len(w) : w[i] # W_quoted

\* The node of a word that is a check.
BaseOf(w) == _parse_check(w, FALSE).val

\* What a parse result evaluates to, for a target and credentials.
EvalOf(v, target, creds) == Call(v, target, creds, <<>>, 0, 0).res

\* w is c1 op c2 op ... op cn with n >= 3 checks.
IsChain(w, op) ==
    /\ Len(w) >= 5
    /\ Len(w) % 2 = 1
    /\ \A i \in 1..Len(w) : IF i % 2 = 1 THEN IsCheckWord(w[i]) ELSE w[i] = op

ChainChildren(w) == [i \in 1..((Len(w) + 1) \div 2) |-> BaseOf(w[2 * i - 1])]

\* C5: without raise_error, parse returns a check node for every rule
\* string, and the False node when the tokens are no well-formed expression.
C5_ParseReturnsCheck ==
    (p_pc # "input" /\ ~p_raise) =>
        /\ p_out.exc = ""
        /\ IsBaseCheck(p_out.val)
        /\ (p_words # <<>> /\ ~WellFormed(p_words)) => p_out.val = FalseCheck

\* C6: `A or B and C` parses to Or(A, And(B, C)) and evaluates as
\* A or (B and C) for every target and credentials.
C6_Precedence ==
    (/\ p_pc # "input"
     /\ Len(p_words) = 5
     /\ p_words[2] = W_or /\ p_words[4] = W_and
     /\ \A i \in {1, 3, 5} : IsCheckWord(p_words[i])) =>
        /\ p_out.exc = ""
        /\ p_out.val = OrCheck(<<BaseOf(p_words[1]),
                                 AndCheck(<<BaseOf(p_words[3]), BaseOf(p_words[5])>>)>>)
        /\ \A target \in Targets, creds \in Creds :
              EvalOf(p_out.val, target, creds) =
                 IF \/ EvalOf(BaseOf(p_words[1]), target, creds) = "True"
                    \/ /\ EvalOf(BaseOf(p_words[3]), target, creds) = "True"
                       /\ EvalOf(BaseOf(p_words[5]), target, creds) = "True"
                 THEN "True" ELSE "False"

\* C7: a chain of n >= 3 checks joined by `and` parses to one And node with
\* the checks as its children in order, a chain joined by `or` to one Or node.
C7_ChainsExtend ==
    /\ (p_pc # "input" /\ IsChain(p_words, W_and)) =>
          p_out.exc = "" /\ p_out.val = AndCheck(ChainChildren(p_words))
    /\ (p_pc # "input" /\ IsChain(p_words, W_or)) =>
          p_out.exc = "" /\ p_out.val = OrCheck(ChainChildren(p_words))

\* The stack of the parser after the last token of rule.
FinalStack(rule, raising) ==
    ShiftAll([tokens |-> <<>>, values |-> <<>>, exc |-> ""],
             _parse_tokenize(rule), raising)

\* C8: a rule whose tokens leave more or fewer than one value on the stack
\* raises InvalidRule when raise_error is set and compiles to the False
\* node when it is not.
C8_FailedReductionRaises ==
    (/\ p_pc # "input"
     /\ p_rule # <<>>
     /\ FinalStack(p_rule, p_raise).exc = ""
     /\ Len(FinalStack(p_rule, p_raise).values) # 1) =>
        IF p_raise THEN p_out.exc = "InvalidRuleException"
        ELSE p_out.exc = "" /\ p_out.val = FalseCheck

RECURSIVE WideConnectives(_)
\* Every And and Or node of the tree has two children or more.
WideConnectives(node) ==
    CASE node.type \in {"AndCheck", "OrCheck"} ->
            /\ Len(node.rules) >= 2
            /\ \A i \in 1..Len(node.rules) : WideConnectives(node.rules[i])
      [] node.type = "NotCheck" -> WideConnectives(node.rule)
      [] OTHER -> TRUE

C10_RenderRoundTrip ==
    (p_pc = "rendered" /\ ValidRule(p_words)) =>
        /\ p_round.exc = ""
        /\ \A target \in Targets, creds \in Creds :
              /\ EvalOf(p_out.val, target, creds) \in {"True", "False"}
              /\ EvalOf(p_round.val, target, creds) = EvalOf(p_out.val, target, creds)

====
